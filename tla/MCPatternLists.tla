--------------------------- MODULE MCPatternLists ----------------------------
(* Model values for PatternLists.  The files hold a blank line, a pattern  *)
(* that matches and one that does not, so that an index, a blank and a     *)
(* missing file each change the answer of a search.  None holds a line     *)
(* that is no expression; one that is half overwritten may be none.        *)
EXTENDS PatternLists

CONSTANTS game, other

MCPattern  == {game, other}
MCMatching == {game}
MCContent  == {<<Blank, other>>, <<other, game>>}
=============================================================================
