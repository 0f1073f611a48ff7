----------------------------- MODULE SendWindow -----------------------------
(***************************************************************************)
(* What the delivery of messages relies on: there is a window in which     *)
(* messages may be sent, and while it is open the account they would go    *)
(* out by is the same.  Reconnecting closes the window, changes the        *)
(* account, if it does, and opens it again.                                *)
(***************************************************************************)
CONSTANTS
  Accounts,  \* the WeChat accounts
  None       \* no account, or no single one

VARIABLES
  open,     \* messages may be sent
  account   \* the one account of the device

window == <<open, account>>

WindowInit == open = TRUE /\ account \in Accounts \cup {None}

Close == open /\ open' = FALSE /\ UNCHANGED account

Change == ~open /\ account' \in Accounts \cup {None} /\ UNCHANGED open

Reopen == ~open /\ open' = TRUE /\ UNCHANGED account

WindowNext == Close \/ Change \/ Reopen

WindowSpec == WindowInit /\ [][WindowNext]_window

=============================================================================
