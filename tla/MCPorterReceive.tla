-------------------------- MODULE MCPorterReceive --------------------------
(***************************************************************************)
(* One stream: "all" takes anything of its peer and is asked before the    *)
(* library's own NORMAL handlers, "msg" takes messages from anyone.        *)
(***************************************************************************)
EXTENDS KeepAlive

TheRules ==
  [h \in {"all", "msg"} |->
    IF h = "all" THEN [for |-> "jid", type |-> "any", sub |-> "any", from |-> "peer",
                       match |-> "any", prio |-> 7]
    ELSE [for |-> "anyone", type |-> "message", sub |-> "any", from |-> "none",
          match |-> "any", prio |-> 7]]

TheOrder == <<"all", "msg">>

Stanza(type, sub, from, what) == [type |-> type, sub |-> sub, from |-> from, what |-> what]
TheStanzas ==
  { Stanza("message", "none", "peer", "pep"),
    Stanza("iq", "get", "peer/r", "ping") }
=============================================================================
