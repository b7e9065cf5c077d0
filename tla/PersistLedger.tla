----------------------------- MODULE PersistLedger -----------------------------
(***************************************************************************)
(* What storage-write promises about the ingest stream, with every         *)
(* mechanism (deliveries, replicas, retries, crashes) left out.            *)
(*                                                                         *)
(* A command's telemetry is written once or never.  The volatile           *)
(* "persisted" notification is sent at most once, and only after the       *)
(* write.  The stream may forget a message because it was acknowledged,    *)
(* which takes either a command that can never be valid or a command that  *)
(* is already durable, or because JetStream gave up on it.                 *)
(***************************************************************************)

CONSTANTS
    Messages,   \* messages of the TELEMETRY_INGEST stream
    Commands,   \* values of commandId
    CommandOf,  \* the command a message carries
    Invalid     \* messages that decodeCommand or validateCommand rejects

VARIABLES
    written,    \* commands whose telemetry and ingest_command row are stored
    announced,  \* commands whose persisted notification was published
    settled     \* what the stream decided about each message

ledgerVars == <<written, announced, settled>>

ValidCommands == {CommandOf[m] : m \in Messages \ Invalid}

LedgerInit ==
    /\ written = {}
    /\ announced = {}
    /\ settled = [m \in Messages |-> "open"]

Write(c) ==
    /\ c \in ValidCommands \ written
    /\ written' = written \union {c}
    /\ UNCHANGED <<announced, settled>>

Announce(c) ==
    /\ c \in written \ announced
    /\ announced' = announced \union {c}
    /\ UNCHANGED <<written, settled>>

Acknowledge(m) ==
    /\ settled[m] = "open"
    /\ m \in Invalid \/ CommandOf[m] \in written
    /\ settled' = [settled EXCEPT ![m] = "acked"]
    /\ UNCHANGED <<written, announced>>

GiveUp(m) ==
    /\ settled[m] = "open"
    /\ settled' = [settled EXCEPT ![m] = "terminal"]
    /\ UNCHANGED <<written, announced>>

LedgerNext ==
    \/ \E c \in Commands : Write(c) \/ Announce(c)
    \/ \E m \in Messages : Acknowledge(m) \/ GiveUp(m)

LedgerSpec == LedgerInit /\ [][LedgerNext]_ledgerVars
================================================================================
