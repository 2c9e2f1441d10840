------------------------------ MODULE Protocol ------------------------------
(***************************************************************************)
(* The valid/ready contract checkers and the cocotb monitor that feeds     *)
(* them, integrations/protocol.py.  At every rising edge the monitor       *)
(* resets the checker or gives it a sample of the interface; the first     *)
(* rule broken ends the monitor's task, and leaving the monitor's block    *)
(* raises that violation, or the one finish() finds.                       *)
(*                                                                         *)
(* A checker is a record                                                   *)
(*   kind      "handshake", "stream", "terminal" or "mid_lane" (the two    *)
(*             modes of the status checker);                               *)
(*   framed    a stream whose last_name is given;                          *)
(*   expected  expected_batches, Unlimited for None;                       *)
(*   resets    the monitor was given a reset signal.                       *)
(* A payload is a record [data, flag]; its flag is "last" on a stream and  *)
(* "error" on a status interface.                                          *)
(***************************************************************************)
EXTENDS Naturals, Sequences, FiniteSets

CONSTANTS
  Checkers,    \* the checkers under consideration
  Data,        \* what a payload carries beside its flag
  Level,       \* what valid, ready and the flag may be, 0 and 1 among others
  Unlimited,   \* no number of batches is expected
  NoPayload,   \* _held_payload is None
  MaxSamples   \* bound on the samples between two resets

ASSUME CheckersAssumption ==
  \A c \in Checkers :
    /\ c.kind \in {"handshake", "stream", "terminal", "mid_lane"}
    /\ c.framed \in BOOLEAN /\ c.resets \in BOOLEAN
    /\ c.expected \in Nat \cup {Unlimited}

ASSUME DistinctAssumption == NoPayload \notin [data : Data, flag : Level] /\ Unlimited \notin Nat

VARIABLES
  checker,     \* which checker it is
  transfers,
  held,        \* _held_payload
  completed,   \* completed_batches, or completed_statuses
  violation,   \* _violation: the rule broken, "none" so far
  outcome,     \* how the block was left: "inside", "ok", a rule, or "body"
  seen         \* history: the samples since the last reset

vars == <<checker, transfers, held, completed, violation, outcome, seen>>

Payload == [data : Data, flag : Level]
Sample == [valid : Level, ready : Level, payload : Payload]
Binary(v) == v \in {0, 1}

Status == checker.kind \in {"terminal", "mid_lane"}

Init ==
  /\ checker \in Checkers
  /\ transfers = 0 /\ held = NoPayload /\ completed = 0
  /\ violation = "none" /\ outcome = "inside" /\ seen = << >>

\* Mutant: only the data is compared with the stalled transfer's.
SameData(p) == p.data = held.data

SamePayload(p) == p = held

\* HandshakeContractChecker.observe, in the order of its checks.
HandshakeRule(s) ==
  IF ~Binary(s.valid) \/ ~Binary(s.ready) THEN "BINARY_CONTROL"
  ELSE IF held = NoPayload THEN "none"
  ELSE IF s.valid = 0 THEN "HELD_UNTIL_READY"
  ELSE IF ~SamePayload(s.payload) THEN "PAYLOAD_STABLE_UNTIL_READY"
  ELSE "none"

Transfer(s) == s.valid = 1 /\ s.ready = 1

HeldAfter(s) == IF s.valid = 1 /\ s.ready = 0 THEN s.payload ELSE NoPayload

AllBatchesDone == checker.expected # Unlimited /\ completed >= checker.expected

\* What StreamContractChecker and StatusContractChecker check of a transfer.
TransferRule(s) ==
  LET flag == s.payload.flag
  IN  IF checker.kind = "stream" /\ checker.framed
      THEN IF ~Binary(flag) THEN "BINARY_CONTROL"
           ELSE IF AllBatchesDone
                THEN IF flag = 1 THEN "EXACTLY_ONCE_PER_BATCH" ELSE "NO_TRANSFER_AFTER_LAST"
           ELSE "none"
      ELSE IF Status
      THEN IF ~Binary(flag) THEN "BINARY_CONTROL"
           ELSE IF checker.kind = "mid_lane" /\ flag = 0 THEN "MID_LANE_STATUS_ONLY_ON_ERROR"
           ELSE IF AllBatchesDone THEN "EXACTLY_ONCE_PER_BATCH"
           ELSE "none"
      ELSE "none"

\* Mutant: statuses count only if they report an error.
CompletesOnFlag(s) == s.payload.flag = 1

\* A status counts even if it is one too many; a last only if it is not.
Completes(s) ==
  \/ checker.kind = "stream" /\ checker.framed /\ s.payload.flag = 1 /\ TransferRule(s) = "none"
  \/ Status /\ TransferRule(s) \in {"none", "EXACTLY_ONCE_PER_BATCH"}

\* observe: a transfer is counted and releases the held payload before the
\* rules about transfers are looked at.
Observe ==
  /\ outcome = "inside" /\ violation = "none"
  /\ Len(seen) < MaxSamples
  /\ \E s \in Sample :
       /\ seen' = Append(seen, s)
       /\ IF HandshakeRule(s) # "none"
          THEN violation' = HandshakeRule(s) /\ UNCHANGED <<transfers, held, completed>>
          ELSE /\ held' = HeldAfter(s)
               /\ transfers' = IF Transfer(s) THEN transfers + 1 ELSE transfers
               /\ violation' = IF Transfer(s) THEN TransferRule(s) ELSE "none"
               /\ completed' = IF Transfer(s) /\ Completes(s) THEN completed + 1 ELSE completed
  /\ UNCHANGED <<checker, outcome>>

\* Mutant: a reset leaves the held payload.
StillHeld == held

\* Mutant: a reset leaves an empty payload held.
EmptyHeld == << >>

ClearedHeld == NoPayload

\* An edge under reset resets the checker and is not sampled.
Reset ==
  /\ outcome = "inside" /\ violation = "none" /\ checker.resets
  /\ transfers' = 0 /\ held' = ClearedHeld /\ completed' = 0
  /\ seen' = << >>
  /\ UNCHANGED <<checker, violation, outcome>>

\* Mutant: mid-lane statuses are counted at the end too.
CountsStatuses == checker.kind # "handshake"

\* finish() looks at the number of batches of a stream, framed or not, and of
\* a terminal status interface.
CountsAtEnd == checker.kind \in {"stream", "terminal"}

FinishRule ==
  IF CountsAtEnd /\ checker.expected # Unlimited /\ completed # checker.expected
  THEN "EXACTLY_ONCE_PER_BATCH" ELSE "none"

\* __aexit__: an exception of the block's own goes first, then the violation
\* of the task, then finish().
Leave ==
  /\ outcome = "inside"
  /\ \/ outcome' = "body"
     \/ outcome' = IF violation # "none" THEN violation
                   ELSE IF FinishRule # "none" THEN FinishRule ELSE "ok"
  /\ UNCHANGED <<checker, transfers, held, completed, violation, seen>>

Left == outcome # "inside" /\ UNCHANGED vars

Next == Observe \/ Reset \/ Leave \/ Left

Spec == Init /\ [][Next]_vars

-----------------------------------------------------------------------------
\* The contract, told of all the samples since the last reset.

\* The transfers among the first n samples.
TransfersIn(n) == { i \in 1 .. n : Transfer(seen[i]) }

Stalled(i) == seen[i].valid = 1 /\ seen[i].ready = 0

\* "A stalled valid and its payload must stay stable until ready"
\* (docs/src/cocotb.md).
HeldThrough(n) ==
  \A i \in 1 .. n - 1 : Stalled(i) =>
    seen[i + 1].valid = 1 /\ seen[i + 1].payload = seen[i].payload

BinaryThrough(n) ==
  \A i \in 1 .. n :
    /\ Binary(seen[i].valid) /\ Binary(seen[i].ready)
    /\ (checker.kind = "stream" /\ checker.framed) \/ Status
       => (Transfer(seen[i]) => Binary(seen[i].payload.flag))

\* The transfers that end a batch.
Batches(n) ==
  IF Status THEN TransfersIn(n)
  ELSE { i \in TransfersIn(n) : checker.kind = "stream" /\ checker.framed
                                /\ seen[i].payload.flag = 1 }

\* "rejects transfers after the final last", and more statuses than batches;
\* mid_lane "rejects success statuses".
FramedThrough(n) ==
  /\ checker.expected # Unlimited => Cardinality(Batches(n)) <= checker.expected
  /\ checker.expected # Unlimited /\ checker.kind = "stream" /\ checker.framed =>
       \A i \in TransfersIn(n) : Cardinality(Batches(i - 1)) < checker.expected
  /\ checker.kind = "mid_lane" => \A i \in TransfersIn(n) : seen[i].payload.flag = 1

Conforms(n) == BinaryThrough(n) /\ HeldThrough(n) /\ FramedThrough(n)

-----------------------------------------------------------------------------
\* Properties.

Rules == {"BINARY_CONTROL", "HELD_UNTIL_READY", "PAYLOAD_STABLE_UNTIL_READY",
          "EXACTLY_ONCE_PER_BATCH", "NO_TRANSFER_AFTER_LAST", "MID_LANE_STATUS_ONLY_ON_ERROR"}

TypeOK ==
  /\ checker \in Checkers
  /\ transfers \in Nat /\ completed \in Nat
  /\ held \in Payload \cup {NoPayload}
  /\ violation \in Rules \cup {"none"}
  /\ outcome \in Rules \cup {"inside", "ok", "body"}
  /\ seen \in Seq(Sample)

\* The checker, which remembers one payload and two numbers, accuses an
\* interface exactly when the samples since the last reset break the contract,
\* and at the first sample that does.
AccusesTheGuilty ==
  /\ violation = "none" => Conforms(Len(seen))
  /\ violation # "none" => ~Conforms(Len(seen)) /\ Conforms(Len(seen) - 1)

\* "a transfer is counted only when both are high" (docs/src/cocotb.md), and
\* every transfer since the last reset is; so is every batch.
CountsTransfers ==
  violation = "none" =>
    /\ transfers = Cardinality(TransfersIn(Len(seen)))
    /\ completed = Cardinality(Batches(Len(seen)))

\* The block is left without an exception only if the contract was kept and as
\* many batches were seen as expected: "expected_batches lets the monitor
\* decide whether a last is duplicated or missing"; mid_lane asks for no
\* number.
CleanExit ==
  outcome = "ok" =>
    /\ Conforms(Len(seen))
    /\ checker.expected # Unlimited /\ checker.kind \in {"stream", "terminal"} =>
         Cardinality(Batches(Len(seen))) = checker.expected

\* And a block that kept it is not accused when it is left.
NoFalseAlarm ==
  outcome \in Rules =>
    \/ ~Conforms(Len(seen))
    \/ /\ checker.kind # "mid_lane" /\ checker.expected # Unlimited
       /\ Cardinality(Batches(Len(seen))) # checker.expected
=============================================================================
