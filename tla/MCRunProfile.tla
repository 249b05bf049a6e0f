---------------------------- MODULE MCRunProfile ----------------------------
(* One installed, one personal and one external file; a profile that keeps  *)
(* its setting in FreeType and in General, with a list, and one that does   *)
(* not end its last line.                                                   *)
EXTENDS RunProfile

CONSTANTS k, l, e, v, w

Line(kind, name, value, ended) == [kind |-> kind, name |-> name, value |-> value, ended |-> ended]
Full == <<Line("section", "General", None, TRUE), Line("key", k, v, TRUE),
          Line("section", l, None, TRUE), Line("text", None, None, TRUE), Line("key", e, w, TRUE),
          Line("section", "FreeType", None, TRUE), Line("key", k, w, TRUE)>>
Open == <<Line("section", "General", None, TRUE), Line("section", l, None, FALSE)>>
MCOriginals == {Full, Open}
MCFactory == k :> w
=============================================================================
