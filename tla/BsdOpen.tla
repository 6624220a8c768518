-------------------------------- MODULE BsdOpen --------------------------------
(***************************************************************************)
(* Opening a device on OpenBSD and NetBSD (hid/openbsd.py, hid/netbsd.py): *)
(* the connection sends pings before CtapHidDevice sends INIT, all on the  *)
(* broadcast channel.  INIT takes the first report for its answer.         *)
(***************************************************************************)
EXTENDS Naturals, Sequences

CONSTANT MaxPings    \* OpenBSD: how many; NetBSD: how many at most
OpenAssumption == MaxPings \in Nat \ {0}

VARIABLES
  bsd,      \* the platform
  open,     \* "no", "ping", "poll", "init", "answer", "open" or "failed"
  pings,    \* pings sent
  owed,     \* what the device has not answered yet
  inbox,    \* its answers that have not been read
  late      \* history: a poll ended without an answer

vars == <<bsd, open, pings, owed, inbox, late>>

Init ==
  /\ bsd \in {"openbsd", "netbsd"}
  /\ open = "no" /\ pings = 0 /\ owed = <<>> /\ inbox = <<>> /\ late = FALSE

Begin ==
  /\ open = "no" /\ open' = "ping"
  /\ UNCHANGED <<bsd, pings, owed, inbox, late>>

Answer ==
  /\ owed # <<>>
  /\ inbox' = Append(inbox, Head(owed)) /\ owed' = Tail(owed)
  /\ UNCHANGED <<bsd, open, pings, late>>

Ping ==
  /\ open = "ping" /\ pings < MaxPings
  /\ open' = "poll" /\ pings' = pings + 1
  /\ owed' = Append(owed, "ping")
  /\ UNCHANGED <<bsd, inbox, late>>

\* an answer is there, in time or not: OpenBSD reads one for every ping and
\* goes on, NetBSD is content with the first
Read ==
  /\ open = "poll" /\ inbox # <<>>
  /\ inbox' = Tail(inbox)
  /\ open' = IF bsd = "openbsd" /\ pings < MaxPings THEN "ping" ELSE "init"
  /\ UNCHANGED <<bsd, pings, owed, late>>

\* 100 ms without an answer; OpenBSD's read then blocks until there is one
Timeout ==
  /\ bsd = "netbsd"
  /\ open = "poll" /\ inbox = <<>>
  /\ open' = IF pings < MaxPings THEN "ping" ELSE "failed"
  /\ late' = TRUE
  /\ UNCHANGED <<bsd, pings, owed, inbox>>

SendInit ==
  /\ open = "init" /\ open' = "answer"
  /\ owed' = Append(owed, "init")
  /\ UNCHANGED <<bsd, pings, inbox, late>>

\* CtapHidDevice.__init__: another command than INIT is INVALID_COMMAND
ReadInit ==
  /\ open = "answer" /\ inbox # <<>>
  /\ inbox' = Tail(inbox)
  /\ open' = IF Head(inbox) = "init" THEN "open" ELSE "failed"
  /\ UNCHANGED <<bsd, pings, owed, late>>

Next ==
  Begin \/ Answer \/ Ping \/ Read \/ Timeout \/ SendInit \/ ReadInit

Spec == Init /\ [][Next]_vars

-------------------------------------------------------------------------------
TypeOK ==
  /\ bsd \in {"openbsd", "netbsd"} /\ late \in BOOLEAN
  /\ open \in {"no", "ping", "poll", "init", "answer", "open", "failed"}
  /\ pings \in 0..MaxPings
  /\ owed \in Seq({"ping", "init"}) /\ inbox \in Seq({"ping", "init"})

\* What is under way, in the order in which it will be read: answers to pings,
\* and that to INIT behind them; without a late answer no more than the one
\* that is waited for.
OnlyPingsBeforeInit ==
  LET answers == inbox \o owed
  IN  /\ open \in {"no", "ping", "poll", "init"} =>
           \A i \in DOMAIN answers : answers[i] = "ping"
      /\ open = "answer" =>
           /\ answers # <<>>
           /\ \A i \in DOMAIN answers : answers[i] = "init" <=> i = Len(answers)
      /\ open = "open" => answers = <<>>
      /\ ~late => Len(answers) = IF open \in {"poll", "answer"} THEN 1 ELSE 0
      /\ open = "failed" => late
      /\ late => bsd = "netbsd"

\* A device that is open has no answer under way that a later call would
\* take for its own, and opening a working device fails only on NetBSD and
\* only if an answer took longer than a poll: the answer to a ping that was
\* given up is then taken for that of INIT (netbsd.py:159-170).
OpenedInSync ==
  /\ open = "open" => inbox \o owed = <<>>
  /\ open = "failed" => bsd = "netbsd" /\ late
===============================================================================
