----------------------------- MODULE MCConfigParse -----------------------------
(* ConfigParse on files of a few lines. *)
EXTENDS ConfigParse

Line(kind, tag, value, text, brace) ==
    [kind |-> kind, tag |-> tag, value |-> value, text |-> text, brace |-> brace]

MCLines ==
    { Line("empty", "", "", "# comment", FALSE), Line("empty", "", "", "# }", TRUE),
      Line("open", "", "", "{", FALSE), Line("close", "", "", "}", FALSE),
      Line("assign", "port", "1", "port=1", FALSE), Line("assign", "port", "2", "port=2", FALSE),
      Line("assign", "", "1", "=1", FALSE),
      Line("pair", "login", "a", "login:a", FALSE), Line("pair", "login", "b", "login:b", FALSE),
      Line("pair", "password", "p", "password:p", FALSE),
      Line("pair", "password", "q", "password:q", FALSE),
      Line("bare", "", "", "login", FALSE), Line("bare", "", "", "port", FALSE) }
================================================================================
