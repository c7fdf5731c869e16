----------------------------- MODULE FeedSource ------------------------------
(***************************************************************************)
(* loadThreatFeed (src/src/provider/feed.ts): which source a feed comes    *)
(* from, the DNS inspection of a remote host                               *)
(* (src/src/threat-intel/dns.ts), the answers that bypass the cache, and   *)
(* streamJSONLFeed (src/src/provider/feed-jsonl.ts), which parses a body   *)
(* whose lines come in pieces.  What the cache does is FeedCache, and the  *)
(* WebSocket is FeedSocket.                                                *)
(*                                                                         *)
(* A body is the kinds of its lines, the last of them perhaps cut short; a *)
(* line is two pieces.  A line is a rule or an allowlist item ("item"), a  *)
(* document ("page"), an object with neither's fields ("alien"), or no     *)
(* JSON ("bad").                                                           *)
(***************************************************************************)
EXTENDS FeedSocket

CONSTANTS
    FeedSetting,    \* the feeds that are configured, in a build
    Body            \* the bodies of JSONL feeds

ASSUME FeedSourceAssumption ==
    /\ FeedSetting # {} /\ Body # {}
    /\ FeedSetting \subseteq
          [local : {"none", "document", "lines"}, remote : {"none", "http", "lines", "socket"},
           cached : BOOLEAN, inspected : BOOLEAN, strict : BOOLEAN, scanned : BOOLEAN,
           sockets : BOOLEAN]
    /\ Body \subseteq [lines : Seq({"item", "page", "alien", "bad"}), cut : BOOLEAN]

VARIABLES
    loading,    \* the load: its setting, and where it is
    body,       \* what a JSONL source holds
    pieces,     \* how many pieces of it arrived
    readLines,  \* how many lines the parser is through with
    items       \* the lines that became rules or allowlist items

sourceOwnVars == <<loading, body, pieces, readLines, items>>
sourceVars == <<sourceOwnVars, socketVars>>

SourceOver == {"threw", "document", "lines", "defaults", "messages"}

SourceTypeOK ==
    /\ SocketTypeOK
    /\ loading.setting \in FeedSetting /\ body \in Body
    /\ loading.at \in SourceOver \union
          {"idle", "file", "default rules", "lookup", "remote", "request", "stream", "cache", "socket"}
    /\ pieces \in 0 .. 2 * Len(body.lines) /\ readLines \in 0 .. pieces
    /\ items \subseteq 1 .. readLines

SourceInit ==
    /\ SocketInit
    /\ loading = [at |-> "idle", setting |-> CHOOSE s \in FeedSetting : TRUE]
    /\ body = (CHOOSE b \in Body : TRUE) /\ pieces = 0 /\ readLines = 0 /\ items = {}

-----------------------------------------------------------------------------
(* loadThreatFeed and loadRemoteFeed                                       *)

To(at) == loading' = [loading EXCEPT !.at = at]
Setting == loading.setting

\* A local feed goes before a remote one, that before the default rules.  No
\* WebSocket's host is inspected.
FirstStep(s) ==
    IF s.local # "none" THEN "file"
    ELSE IF s.remote = "none" THEN "default rules"
    ELSE IF s.inspected /\ s.remote # "socket" THEN "lookup" ELSE "remote"

\* A body b is there for a source of lines.
LoadThreatFeed(s, b) ==
    /\ loading.at = "idle"
    /\ loading' = [at |-> FirstStep(s), setting |-> s]
    /\ "lines" \notin {s.local, s.remote} => b = body
    /\ body' = b
    /\ UNCHANGED <<pieces, readLines, items, socketVars>>

Whole == {n \in DOMAIN body.lines : body.cut => n < Len(body.lines)}
Items(lines) == {n \in lines : body.lines[n] = "item"}

\* parseJSONLFeed leaves out each line that it cannot use.
LoadLines ==
    /\ loading.at = "file" /\ Setting.local = "lines"
    /\ readLines' = Len(body.lines) /\ pieces' = 2 * readLines'
    /\ items' = Items(Whole)
    /\ To("lines")
    /\ UNCHANGED <<body, socketVars>>

\* A file may be missing or be no feed.
LoadDocument(found) ==
    /\ loading.at = "file"
    /\ found => Setting.local = "document"
    /\ To(IF found THEN "document" ELSE "threw")
    /\ UNCHANGED <<body, pieces, readLines, items, socketVars>>

\* Without its file the default is a feed without rules.
LoadDefaults ==
    /\ loading.at = "default rules"
    /\ To("defaults")
    /\ UNCHANGED <<body, pieces, readLines, items, socketVars>>

\* A name that cannot be resolved is suspicious if that is required only.
Inspect(answer) ==
    /\ loading.at = "lookup"
    /\ To(IF answer \in {"blocked", "short-lived"} \/ (answer = "unresolved" /\ Setting.strict)
            THEN "threw" ELSE "remote")
    /\ UNCHANGED <<body, pieces, readLines, items, socketVars>>

OpenSocket ==
    /\ loading.at = "remote" /\ Setting.remote = "socket"
    /\ IF Setting.sockets THEN To("socket") /\ Connect
       ELSE To("threw") /\ UNCHANGED socketVars
    /\ UNCHANGED <<body, pieces, readLines, items>>

\* Lines are never cached, and nothing is with a TTL of zero; then the limiter
\* is asked, which the cache does by itself.
Attempt(allowed) ==
    /\ loading.at = "remote" /\ Setting.remote \in {"http", "lines"}
    /\ IF Setting.remote = "http" /\ Setting.cached THEN To("cache")
       ELSE To(IF allowed THEN "request" ELSE "threw")
    /\ UNCHANGED <<body, pieces, readLines, items, socketVars>>

AnswerFromCache(found) ==
    /\ loading.at = "cache"
    /\ To(IF found THEN "document" ELSE "threw")
    /\ UNCHANGED <<body, pieces, readLines, items, socketVars>>

\* A page is searched for scripts first, and then it must be a document: of
\* several lines none is.
ParseRemoteResponse(page, sound) ==
    /\ loading.at = "request"
    /\ To(CASE ~sound -> "threw"
            [] sound /\ (page \/ Setting.scanned) /\ Setting.remote = "lines" ->
                 IF body = [lines |-> <<"page">>, cut |-> FALSE] THEN "document" ELSE "threw"
            [] sound /\ ~(page \/ Setting.scanned) /\ Setting.remote = "lines" -> "stream"
            [] sound /\ Setting.remote = "http" -> "document")
    /\ UNCHANGED <<body, pieces, readLines, items, socketVars>>

AwaitSocket ==
    /\ loading.at = "socket" /\ settled # "no"
    /\ To(IF settled = "feed" THEN "messages" ELSE "threw")
    /\ UNCHANGED <<body, pieces, readLines, items, socketVars>>

-----------------------------------------------------------------------------
(* streamJSONLFeed                                                         *)

\* Bun.JSONL.parseChunk gives the values that are whole and stops at the first
\* text that is no JSON; the rest stays in the buffer.
ParseChunk(arrived) ==
    {n \in readLines + 1 .. arrived \div 2 :
        \A k \in readLines + 1 .. n : body.lines[k] # "bad"}

BodyEnd == 2 * Len(body.lines) - (IF body.cut THEN 1 ELSE 0)

\* Faulty variant: what is left of a chunk is dropped.
ReadChunkAnew(n) ==
    /\ loading.at = "stream" /\ pieces + n <= BodyEnd
    /\ pieces' = pieces + n
    /\ readLines' = (pieces + n + 1) \div 2
    /\ items' = items \union Items(ParseChunk(pieces + n))
    /\ UNCHANGED <<loading, body, socketVars>>

\* A page, and an object that is neither rule nor allowlist item, is left out.
ReadChunk(n) ==
    /\ loading.at = "stream" /\ pieces + n <= BodyEnd
    /\ pieces' = pieces + n
    /\ readLines' = readLines + Cardinality(ParseChunk(pieces + n))
    /\ items' = items \union Items(ParseChunk(pieces + n))
    /\ UNCHANGED <<loading, body, socketVars>>

\* The rest of the buffer is parsed once more.
EndStream ==
    /\ loading.at = "stream" /\ pieces = BodyEnd
    /\ readLines' = readLines + Cardinality(ParseChunk(pieces))
    /\ items' = items \union Items(ParseChunk(pieces))
    /\ To("lines")
    /\ UNCHANGED <<body, pieces, socketVars>>

StreamBreaks ==
    /\ loading.at = "stream"
    /\ To("threw")
    /\ UNCHANGED <<body, pieces, readLines, items, socketVars>>

SourceNext ==
    \/ \E s \in FeedSetting, b \in Body : LoadThreatFeed(s, b)
    \/ LoadLines \/ LoadDefaults \/ OpenSocket \/ AwaitSocket
    \/ \E ok \in BOOLEAN : LoadDocument(ok) \/ Attempt(ok) \/ AnswerFromCache(ok)
    \/ \E answer \in {"clean", "blocked", "short-lived", "unresolved"} : Inspect(answer)
    \/ \E page, sound \in BOOLEAN : ParseRemoteResponse(page, sound)
    \/ \E n \in 1 .. BodyEnd : ReadChunk(n)
    \/ EndStream \/ StreamBreaks
    \/ SocketNext /\ UNCHANGED sourceOwnVars

SourceSpec == SourceInit /\ [][SourceNext]_sourceVars

-----------------------------------------------------------------------------
(* A JSONL feed that a load returned is whole: however its body was        *)
(* divided on the way, it has the items of the same lines in a file, up to *)
(* a line that is no JSON, which a file only loses by itself; and of a     *)
(* stream that broke off nothing is returned (feed-jsonl.ts:33-122).       *)
FeedIsWhole ==
    loading.at = "lines" =>
        items = Items({n \in Whole :
                         Setting.local = "none" => \A k \in 1 .. n : body.lines[k] # "bad"})

(* A load can be relied on: what streams is whole, and what comes over a   *)
(* WebSocket comes to an end, whatever the server does or leaves out       *)
(* (feed-jsonl.ts:33-122, feed-websocket.ts:43-86).                        *)
FeedLoadsHold == [](FeedIsWhole /\ (line = "open" => <>(settled # "no")))
=============================================================================
