-------------------------- MODULE MCWechatReconnect --------------------------
(***************************************************************************)
(* WechatReconnect for TLC.  No property says anything of what follows a   *)
(* look that a call of before outdates: nothing is explored beyond it.     *)
(***************************************************************************)
EXTENDS WechatReconnect

NotOvertaken == ~overtaken

=============================================================================
