----------------------------- MODULE FeedSocket ------------------------------
(***************************************************************************)
(* loadWebSocketFeed (src/src/provider/feed-websocket.ts): messages are    *)
(* collected, joined by newlines and parsed as a whole after each one,     *)
(* until they are a feed, the socket fails or closes, or the time is up.   *)
(* The callbacks of the socket and of the timer come in any order, also    *)
(* after the load is over.                                                 *)
(*                                                                         *)
(* A message is a JSON document ("document") with the rules 1 and 2, its   *)
(* two parts ("head", "rest"; "cut" is the rest of one that was divided    *)
(* within a string), one of the rules by itself (a number: a JSONL line),  *)
(* or some other text.                                                     *)
(***************************************************************************)
EXTENDS Naturals, Sequences, FiniteSets

CONSTANTS
    MaxMessages     \* bound on the messages of a server

ASSUME SocketAssumption == MaxMessages \in Nat

Rules == {1, 2}
Line(n) == [kind |-> "line", rule |-> n]
Other(kind) == [kind |-> kind, rule |-> 0]
Message == {Line(n) : n \in Rules} \union
           {Other(kind) : kind \in {"document", "head", "rest", "cut", "text", "blank"}}
NoFeed == {0}

VARIABLES
    line,       \* the connection: "none", "open", "closed", "failed"
    arriving,   \* messages the server sent, on their way
    sent,       \* history: all messages it sent
    chunks,     \* the messages of the load
    settled,    \* "no", "feed", or how the load was rejected
    feed,       \* the rules it gave
    timer       \* "none", "set", "fired", "cleared"

socketVars == <<line, arriving, sent, chunks, settled, feed, timer>>

SocketTypeOK ==
    /\ line \in {"none", "open", "closed", "failed"}
    /\ arriving \in Seq(Message) /\ sent \in Seq(Message) /\ Len(sent) <= MaxMessages
    /\ chunks \in Seq(Message)
    /\ settled \in {"no", "feed", "timed out", "failed", "closed"}
    /\ feed \subseteq Rules \union NoFeed
    /\ timer \in {"none", "set", "fired", "cleared"}
    /\ settled = "feed" <=> feed # NoFeed

SocketInit ==
    /\ line = "none" /\ arriving = <<>> /\ sent = <<>> /\ chunks = <<>>
    /\ settled = "no" /\ feed = NoFeed /\ timer = "none"

-----------------------------------------------------------------------------
(* parseWebSocketPayload.  trim() takes blank messages away at both ends,  *)
(* and newlines between the parts of a document do not matter.             *)

Solid(messages) == SelectSeq(messages, LAMBDA m : m.kind # "blank")
LinesOf(messages) == {messages[n].rule : n \in DOMAIN messages} \intersect Rules

\* What begins as JSON has to be one document: a line is not, and several
\* values are not either.  The rest is taken line by line, without the others.
Payload(messages) ==
    LET payload == Solid(messages)
        kinds == [n \in DOMAIN payload |-> payload[n].kind]
    IN CASE payload = <<>> -> NoFeed
         [] payload # <<>> /\ kinds[1] \in {"document", "head", "line"} ->
              IF kinds \in {<<"document">>, <<"head", "rest">>} THEN Rules ELSE NoFeed
         [] OTHER -> LinesOf(payload)

-----------------------------------------------------------------------------
(* The server and the network                                              *)

Send(m) ==
    /\ line = "open" /\ Len(sent) < MaxMessages
    /\ sent' = Append(sent, m)
    /\ arriving' = Append(arriving, m)
    /\ UNCHANGED <<line, chunks, settled, feed, timer>>

\* The server may also say nothing more and never close.
Disconnect(how) ==
    /\ line = "open"
    /\ line' = how
    /\ UNCHANGED <<arriving, sent, chunks, settled, feed, timer>>

-----------------------------------------------------------------------------
(* The load and its callbacks                                              *)

\* loadWebSocketFeed itself: a socket and a timer.
Connect ==
    /\ line = "none"
    /\ line' = "open" /\ timer' = "set"
    /\ UNCHANGED <<arriving, sent, chunks, settled, feed>>

\* finish(): the first one wins.
Settles(how, rules) ==
    IF settled = "no"
      THEN settled' = how /\ feed' = rules /\ timer' = "cleared"
      ELSE UNCHANGED <<settled, feed, timer>>

\* Messages that were on their way arrive after close(), too.
OnMessage ==
    /\ arriving # <<>>
    /\ arriving' = Tail(arriving)
    /\ chunks' = Append(chunks, Head(arriving))
    /\ LET rules == Payload(chunks')
       IN IF rules = NoFeed
            THEN UNCHANGED <<line, settled, feed, timer>>
            ELSE /\ Settles("feed", rules)
                 /\ line' = IF line = "open" THEN "closed" ELSE line
    /\ UNCHANGED sent

OnError ==
    /\ line = "failed"
    /\ line' = "closed"
    /\ Settles("failed", NoFeed)
    /\ UNCHANGED <<arriving, sent, chunks>>

OnClose ==
    /\ line = "closed" /\ arriving = <<>>
    /\ LET rules == Payload(chunks)
       IN Settles(IF rules = NoFeed THEN "closed" ELSE "feed", rules)
    /\ UNCHANGED <<line, arriving, sent, chunks>>

OnTimeout ==
    /\ timer = "set"
    /\ line' = IF line = "open" THEN "closed" ELSE line
    /\ IF settled = "no"
         THEN settled' = "timed out" /\ feed' = NoFeed
         ELSE UNCHANGED <<settled, feed>>
    /\ timer' = "fired"
    /\ UNCHANGED <<arriving, sent, chunks>>

SocketNext ==
    \/ \E m \in Message : Send(m)
    \/ \E how \in {"closed", "failed"} : Disconnect(how)
    \/ OnMessage \/ OnError \/ OnClose \/ OnTimeout

\* A timer that is set fires, and callbacks that are due are called.
SocketFairness == WF_socketVars(OnMessage \/ OnError \/ OnClose \/ OnTimeout)
=============================================================================
