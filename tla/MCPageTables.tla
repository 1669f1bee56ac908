---------------------------- MODULE MCPageTables ----------------------------
(* Memory of three frames that are tables; a fourth is not in the image.   *)
EXTENDS PageTables, TLC

E(s, b, n, f) == [state |-> s, big |-> b, nx |-> n, frame |-> f]
Absent == E("absent", TRUE, FALSE, 1)
To(f) == E("valid", FALSE, FALSE, f)
Large(f) == E("valid", TRUE, FALSE, f)
Moving(f) == E("transition", FALSE, FALSE, f)
NoExec(f) == E("valid", FALSE, TRUE, f)

TablesOf(es) == [0..1 -> es]

MCImages ==
  { (0 :> a) @@ (1 :> b) @@ (2 :> c) @@ (3 :> [i \in 0..1 |-> Zero]) :
      a \in TablesOf({Absent, To(0), To(1), Large(2)}),
      b \in TablesOf({Absent, To(2), Large(1), NoExec(2)}),
      c \in {(0 :> Absent) @@ (1 :> Moving(3)), (0 :> Moving(3)) @@ (1 :> Absent)} }
=============================================================================
