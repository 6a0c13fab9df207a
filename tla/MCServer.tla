------------------------------ MODULE MCServer ------------------------------
(* The whole process with one client of the decrypt port and one of either *)
(* the m3u8 or the account port: the other client never comes.             *)
EXTENDS Server, TLC

OneOther ==
  \/ \A c \in M3u8Clients : mpeer[c] = "away"
  \/ \A c \in AccountClients : apeer[c] = "away"

MCSpec == Init /\ [][Next /\ OneOther']_vars /\ Fairness
=============================================================================
