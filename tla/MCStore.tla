------------------------------ MODULE MCStore ------------------------------
(* Two requests at a time, two ids, three files, two of them in one folder. *)
EXTENDS Store

CONSTANTS s1, s2, p1, p2

Blank == [op |-> "drop", dim |-> 2, points |-> <<>>, ids |-> {}, paths |-> <<>>]
Point(id, path) == [id |-> id, path |-> path]
Top == <<"a">>
Folder == <<"a", "b">>
Other == <<"c">>

MCExisting == {Point(p1, Folder)}

MCMenu == {
  Blank,
  [Blank EXCEPT !.op = "create"],
  [Blank EXCEPT !.op = "create", !.dim = 3],
  [Blank EXCEPT !.op = "upsert", !.points = <<Point(p1, Folder), Point(p2, Top)>>],
  [Blank EXCEPT !.op = "upsert", !.dim = 3, !.points = <<Point(p1, Other)>>],
  [Blank EXCEPT !.op = "deleteIds", !.ids = {p1}],
  [Blank EXCEPT !.op = "deletePaths", !.paths = <<Other, Folder, Top>>],
  [Blank EXCEPT !.op = "deletePaths", !.paths = <<Folder>>],
  [Blank EXCEPT !.op = "clear"],
  [Blank EXCEPT !.op = "search", !.paths = <<Folder>>] }
=============================================================================
