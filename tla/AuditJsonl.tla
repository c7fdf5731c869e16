----------------------------- MODULE AuditJsonl -----------------------------
(***************************************************************************)
(* EncryptedJSONLSink (src/src/audit/encrypted-jsonl-sink.ts) under        *)
(* several processes that append to one file, and the follower of          *)
(* `audit tail --follow` (src/src/interactive/shell.ts) that polls it.     *)
(*                                                                         *)
(* The file is the sequence of writes that reached it.  A write is a line; *)
(* or, when the disk fills up or the process dies in it, a part of a line: *)
(* cut inside the payload, or all of it but the newline.                   *)
(***************************************************************************)
EXTENDS Naturals, FiniteSets, Sequences

CONSTANTS
    Record,       \* audit entries, numbered as their writes are chained
    Process,      \* processes with a sink of their own on the file
    Poll,         \* slots for the follower's overlapping polls, numbered, too
    MaxTorn       \* bound on the number of torn writes

ASSUME AuditAssumption ==
    MaxTorn \in Nat /\ Record \subseteq Nat /\ IsFiniteSet(Record) /\ Poll \subseteq Nat

VARIABLES
    file,       \* the writes that reached the file
    chain,      \* chain[p]: entries whose write is chained, the first under way
    status,     \* status[e]
    owner,      \* owner[e]: the process whose sink is appending e
    follow,     \* the follower: off, in its first read, polling
    seen,       \* the follower's count of entries
    reading,    \* reading[i]: the file as a poll found it
    printed     \* the entries the follower has printed

sinkVars == <<file, chain, status, owner>>
tailVars == <<follow, seen, reading, printed>>
vars == <<sinkVars, tailVars>>

NoOne == "no one"
Idle == [busy |-> FALSE, text |-> <<>>]
Pending == {"encrypting", "chained", "stored"}

Write == [entry : Record, kind : {"line", "cut", "open"}]

TypeOK ==
    /\ file \in Seq(Write) /\ Len(file) <= Cardinality(Record)
    /\ chain \in [Process -> Seq(Record)]
    /\ status \in [Record -> {"new", "acked", "failed"} \union Pending]
    /\ owner \in [Record -> Process \union {NoOne}]
    /\ follow \in {"off", "first", "on"}
    /\ seen \in 0 .. Cardinality(Record)
    /\ reading \in [Poll -> [busy : BOOLEAN, text : Seq(Write)]]
    /\ printed \in SUBSET Record
    /\ \A p \in Process : \A i \in 1 .. Len(chain[p]) :
          status[chain[p][i]] = "chained" /\ owner[chain[p][i]] = p

Init ==
    /\ file = <<>>
    /\ chain = [p \in Process |-> <<>>]
    /\ status = [e \in Record |-> "new"]
    /\ owner = [e \in Record |-> NoOne]
    /\ follow = "off"
    /\ seen = 0
    /\ reading = [i \in Poll |-> Idle]
    /\ printed = {}

-----------------------------------------------------------------------------
(* stream() and readAll(): the text is split at the newlines, and a line   *)
(* that does not decrypt is skipped.                                       *)

\* The i-th write stands on a line of its own, and all of it.
OwnLine(text, i) ==
    /\ i = 1 \/ text[i - 1].kind = "line"
    /\ text[i].kind = "line" \/ (text[i].kind = "open" /\ i = Len(text))

Own(text) == {i \in 1 .. Len(text) : OwnLine(text, i)}
Readable(text) == {text[i].entry : i \in Own(text)}

\* The place of the i-th write among the entries of the text.
Place(text, i) == Cardinality({j \in Own(text) : j <= i})

Acked == {e \in Record : status[e] = "acked"}
Torn == {i \in 1 .. Len(file) : file[i].kind # "line"}

-----------------------------------------------------------------------------
(* append(): encrypt, chain the write, await the chain.                    *)

CallAppend(p, e) ==
    /\ status[e] = "new"
    /\ status' = [status EXCEPT ![e] = "encrypting"]
    /\ owner' = [owner EXCEPT ![e] = p]
    /\ UNCHANGED <<file, chain, tailVars>>

\* Encryption ends in any order; the chain is the order of the file.
ChainWrite(e) ==
    /\ status[e] = "encrypting"
    /\ \A earlier \in Record : status[earlier] \in {"new", "encrypting"} => e <= earlier
    /\ status' = [status EXCEPT ![e] = "chained"]
    /\ chain' = [chain EXCEPT ![owner[e]] = Append(@, e)]
    /\ UNCHANGED <<file, owner, tailVars>>

\* The first write of the chain is over; the next one follows, well or badly.
WriteOver(p, how) ==
    /\ chain[p] # <<>>
    /\ chain' = [chain EXCEPT ![p] = Tail(@)]
    /\ status' = [status EXCEPT ![Head(chain[p])] = how]
    /\ owner' = IF how = "failed" THEN [owner EXCEPT ![Head(chain[p])] = NoOne] ELSE owner
    /\ UNCHANGED tailVars

Reaches(p, kind) == file' = Append(file, [entry |-> Head(chain[p]), kind |-> kind])

\* mkdir -p, then one appendFile.
AppendLine(p) ==
    /\ WriteOver(p, "stored")
    /\ Reaches(p, "line")

\* mkdir or appendFile rejects and nothing was written.
WriteFails(p) ==
    /\ WriteOver(p, "failed")
    /\ UNCHANGED file

TearingBound == Cardinality(Torn) < MaxTorn

WriteTears(p) ==
    /\ TearingBound
    /\ WriteOver(p, "failed")
    /\ \E kind \in {"cut", "open"} : Reaches(p, kind)

\* Faulty variant: the caller goes on as soon as the write is chained.
AppendReturnsEarly(e) ==
    /\ status[e] \in {"chained", "stored"}
    /\ status' = [status EXCEPT ![e] = "acked"]
    /\ owner' = [owner EXCEPT ![e] = NoOne]
    /\ UNCHANGED <<file, chain, tailVars>>

\* `await this.appendChain` returns to the caller.
AppendReturns(e) ==
    /\ status[e] = "stored"
    /\ status' = [status EXCEPT ![e] = "acked"]
    /\ owner' = [owner EXCEPT ![e] = NoOne]
    /\ UNCHANGED <<file, chain, tailVars>>

\* A process dies, perhaps in a write.
Crash(p) ==
    /\ \E e \in Record : owner[e] = p /\ status[e] \in Pending
    /\ \/ UNCHANGED file
       \/ /\ chain[p] # <<>>
          /\ TearingBound
          /\ \E kind \in {"cut", "open"} : Reaches(p, kind)
    /\ chain' = [chain EXCEPT ![p] = <<>>]
    /\ status' = [e \in Record |-> IF owner[e] = p /\ status[e] \in Pending
                                     THEN "failed" ELSE status[e]]
    /\ owner' = [e \in Record |-> IF owner[e] = p THEN NoOne ELSE owner[e]]
    /\ UNCHANGED tailVars

-----------------------------------------------------------------------------
(* tailAuditLog: one read, then a poll every second.  Each reads the file  *)
(* at its start and prints at its end; polls overlap when decrypting takes *)
(* longer than a second, and the count is the one of the last to end.      *)

StartPoll(i) ==
    /\ ~reading[i].busy
    /\ \A other \in Poll : ~reading[other].busy => i <= other
    /\ follow # "first"
    /\ follow' = IF follow = "off" THEN "first" ELSE follow
    /\ reading' = [reading EXCEPT ![i] = [busy |-> TRUE, text |-> file]]
    /\ UNCHANGED <<sinkVars, seen, printed>>

\* The entries beyond the count are printed.
PrintNew(text) ==
    printed' = printed \union {text[n].entry : n \in {n \in Own(text) : Place(text, n) > seen}}

\* Faulty variant: the entries are counted when the poll ends.
EndPollRecounts(i) ==
    /\ reading[i].busy
    /\ PrintNew(reading[i].text)
    /\ seen' = Cardinality(Own(file))
    /\ follow' = "on"
    /\ reading' = [reading EXCEPT ![i] = Idle]
    /\ UNCHANGED sinkVars

EndPoll(i) ==
    /\ reading[i].busy
    /\ PrintNew(reading[i].text)
    /\ seen' = Cardinality(Own(reading[i].text))
    /\ follow' = "on"
    /\ reading' = [reading EXCEPT ![i] = Idle]
    /\ UNCHANGED sinkVars

\* Faulty variant: a poll that failed keeps its slot.
PollFailsBusy(i) ==
    /\ reading[i].busy
    /\ follow = "on"
    /\ reading' = [reading EXCEPT ![i].text = <<>>]
    /\ UNCHANGED <<sinkVars, follow, seen, printed>>

\* A read error is ignored once the follower polls.
PollFails(i) ==
    /\ reading[i].busy
    /\ follow = "on"
    /\ reading' = [reading EXCEPT ![i] = Idle]
    /\ UNCHANGED <<sinkVars, follow, seen, printed>>

Next ==
    \/ \E p \in Process, e \in Record : CallAppend(p, e)
    \/ \E e \in Record : ChainWrite(e) \/ AppendReturns(e)
    \/ \E p \in Process : AppendLine(p)
    \/ \E p \in Process : WriteFails(p) \/ WriteTears(p) \/ Crash(p)
    \/ \E i \in Poll : StartPoll(i)
    \/ \E i \in Poll : EndPoll(i)
    \/ \E i \in Poll : PollFails(i)

Spec == Init /\ [][Next]_vars

\* The interval keeps firing, and reading does not fail for ever.  Nobody has
\* to append, and writes may fail for ever.
Fairness ==
    /\ WF_vars(\E i \in Poll : StartPoll(i))
    /\ \A i \in Poll : SF_vars(EndPoll(i))

FairSpec == Spec /\ Fairness

-----------------------------------------------------------------------------
(* The follower leaves no entry out: whatever it printed last, it printed  *)
(* everything readable before it, although polls overlap and the count may *)
(* go back.  A write cut right before its newline is left out here: it is  *)
(* readable until the next append and shifts the count (shell.ts:625-659). *)
TailHasNoGaps ==
    (\A i \in Torn : file[i].kind # "open") =>
        \A m, n \in Own(file) :
            m < n /\ file[n].entry \in printed => file[m].entry \in printed

(* A stored entry that can be read is printed in the end, again unless a   *)
(* write was cut right before its newline (shell.ts:643-659).              *)
TailCatchesUp ==
    \A e \in Record :
        (e \in Readable(file) /\ status[e] # "failed")
            ~> (e \in printed \/ \E i \in Torn : file[i].kind = "open")

\* The sink implements an append-only log: complete lines are its entries.
Complete == {i \in Own(file) : file[i].kind = "line"}
Logged == {file[i].entry : i \in Complete}
InOrder == {q \in Complete \X Complete : q[1] < q[2]}
Before == {<<file[q[1]].entry, file[q[2]].entry>> : q \in InOrder}
EndsTorn == Torn # {} /\ file[Len(file)].kind # "line"

\* How far an append has got, as the caller sees it.
Told == [e \in Record |-> IF status[e] \in {"encrypting", "chained"} THEN "called" ELSE status[e]]

Log == INSTANCE AuditLog WITH
    log <- Logged, before <- Before, stub <- EndsTorn, status <- Told

(* Seen from outside, the sink is an append-only log with one order of     *)
(* entries, in which an append is acknowledged after it is stored, however *)
(* its chained writes, failures and crashes interleave.                    *)
ImplementsLog == Log!Spec

(* encrypted-jsonl-sink.ts:13 says of the sink that "Corruption of one     *)
(* line does not prevent reading the rest of the log": every acknowledged  *)
(* entry can be read.  An append that follows a torn write shares its line *)
(* and is lost with it.                                                    *)
CorruptionIsLocal == Acked \subseteq Readable(file)
=============================================================================
