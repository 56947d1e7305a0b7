------------------------- MODULE MCTelegramPairing -------------------------
(***************************************************************************)
(* TelegramPairing for TLC.  Users are alike when none is in AllowFrom, and*)
(* nothing looks at who sent an update without text: it is enough to check *)
(* the behaviours in which the same user always writes first and sends all *)
(* of the latter.  (TLC's own symmetry is no help with a liveness          *)
(* property.)                                                              *)
(***************************************************************************)
EXTENDS TelegramPairing

FirstUser == CHOOSE u \in Users : TRUE

MCNext ==
    /\ Next
    /\ \A i \in DOMAIN updates' :
          i = 1 \/ ~updates'[i].text => updates'[i].user = FirstUser

MCSpec == Init /\ [][MCNext]_vars /\ Fairness
=============================================================================
