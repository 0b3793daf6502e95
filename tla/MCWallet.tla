------------------------------ MODULE MCWallet ------------------------------
(***************************************************************************)
(* The wallet's instance of MCPayments, and the banquet page: an event of  *)
(* two functions, and one of none.  The two share no state and are         *)
(* explored side by side.                                                  *)
(***************************************************************************)
EXTENDS MCPayments, BanquetDesk

Functions == "e1" :> <<"f1", "f2">> @@ "e2" :> <<>>
Words == {"t"}
Acts == TRUE :> 6 @@ FALSE :> 4

\* Nobody has come to the page; on the other side, nothing was booked or paid.
NoEditor ==
    /\ waits /\ acts + others = 0 /\ sent = {} /\ shown.event = Nobody
    /\ \A f \in Fn : order[f] = NoOrder
SideInit == PInit /\ DeskInit
SideNext == \/ NoEditor /\ PayNext /\ UNCHANGED deskVars
            \/ PInit /\ DeskNext /\ UNCHANGED payVars
SideSpec == SideInit /\ [][SideNext]_<<payVars, deskVars>>
=============================================================================
