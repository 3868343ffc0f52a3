------------------------------- MODULE MCDesktop -------------------------------
(***************************************************************************)
(* Two runs of a desktop application, one of which may take the public id  *)
(* of the other or of a trace that a v1 database already holds; two such   *)
(* traces, of the runs "x:y" and "x", whose joined names collide; and a    *)
(* second process that opens the same database.                            *)
(***************************************************************************)
EXTENDS DesktopHost

CONSTANTS e1, e2, l1, l2, app, other

MCNamesOf == e1 :> {"x"} @@ e2 :> {"x", "y"}
MCLegacyRun == l1 :> "x" @@ l2 :> "x:y"
MCColonId == [l \in Legacy |-> "x:y:z"]
MCLegacyLen == l1 :> 2 @@ l2 :> 1

Scene(runs, kept, asked, sch, n) ==
    [runs |-> runs, kept |-> kept, asking |-> asked, schema |-> sch, events |-> n]

MCScenes ==
    {Scene({e1, e2}, {}, {e1, e2}, 3, 0),      \* two approvals, nothing kept
     Scene({e1, e2}, {e1, e2}, {}, 3, 2),      \* two traces, no approvals
     Scene({e1}, {e1}, {e1}, 3, 1),            \* one run with both
     Scene({e1}, {e1}, {}, 1, 2)}              \* a migration, then a run
=============================================================================
