---------------------------- MODULE MCHibernate ----------------------------
(* Hibernation files of two tables and up to five blocks of two pages.     *)
EXTENDS Hibernate, TLC

R(a, b) == [start |-> a, end |-> b]

(* Offsets of blocks that begin at o and have the size fields of s.        *)
Stored(n) == (IF (n + 1) % Align = 0 THEN n + 1 ELSE n + 1 + Align - ((n + 1) % Align))
Starts(o, s) ==
  LET at[i \in 1..(Len(s) + 1)] ==
        IF i = 1 THEN o ELSE at[i - 1] + HeaderSize + Stored(s[i - 1][1])
  IN at
Laying(o, s) ==
  [b \in {Starts(o, s)[i] : i \in DOMAIN s} |->
     LET i == CHOOSE j \in DOMAIN s : Starts(o, s)[j] = b
     IN [packed |-> s[i][1], data |-> s[i][2]]]
End(o, s) == Starts(o, s)[Len(s) + 1]

(* Table t, its blocks s, and a table with its blocks behind them.         *)
TwoTables(t, magic, r1, s1, r2, s2, back, cut) ==
  LET o1 == (t + 1) * Page
      t2 == (End(o1, s1) + Page - 1) \div Page
      o2 == (t2 + 1) * Page
  IN [first |-> IF magic THEN t ELSE None,
      tables |-> t :> [ranges |-> r1, next |-> t2]
                 @@ t2 :> [ranges |-> r2, next |-> IF back THEN t ELSE 0],
      blocks |-> Laying(o1, s1) @@ Laying(o2, s2),
      fsize |-> End(o2, s2) - cut]

Small == <<1, 8>>   \* two bytes that unpack to a block
Odd == <<2, 8>>     \* three bytes, rounded up
Torn == <<3, 5>>    \* unpacks to a page and a byte
Raw == <<7, 8>>     \* uncompressed

MCImages ==
  { TwoTables(1, TRUE, r1, s1, r2, s2, back, 0) :
      r1 \in { <<R(2, 3), R(4, 5)>>, <<R(1, 3), R(4, 5)>> },
      s1 \in { <<Odd>>, <<Raw, Small>>, <<Torn, Small, Odd>> },
      r2 \in { <<R(6, 7), R(0, 1)>>, <<R(6, 9)>> },
      s2 \in { <<>>, <<Raw>>, <<Torn, Raw>> },
      back \in BOOLEAN }
  \cup { TwoTables(1, TRUE, r1, <<Small>>, <<R(2, 3)>>, <<Torn, Raw>>, FALSE, cut) :
            r1 \in { <<R(1, 2), R(2, 2)>>, <<R(4, 6)>>, <<R(1, 2), R(3, 4)>>,
                    <<R(1, 2), R(2, 3)>> },
            cut \in {0, 3} }
  \cup { TwoTables(t, FALSE, <<R(1, 3), R(4, 5)>>, <<Raw, Small>>, <<R(6, 9)>>,
                   <<Torn, Raw>>, FALSE, cut) : t \in {0, 1, 2, 3}, cut \in {0, 3} }
=============================================================================
