-------------------------- MODULE WatchModeProofs ---------------------------
(***************************************************************************)
(* Theorems about watch mode and the supply-chain domain it scans with     *)
(* (src/src/cli/watch.ts, src/src/domains/supply-chain.ts).                *)
(*                                                                         *)
(* That a log has only the decisions of its own scans, and that a scan     *)
(* that returns has recorded all of its packages, both rest on how far     *)
(* every call of scanAll has got (CallSound); which is inductive because   *)
(* no two scans of watch mode are ever under way.                          *)
(***************************************************************************)
EXTENDS WatchMode, MatchProofs

-----------------------------------------------------------------------------
(* The inductive invariant                                                 *)

\* How many decisions of the call c are in the buffer.
Buffered(c) == IF c.phase = "append" THEN c.recorded + 1 ELSE c.recorded

\* Unless the host meddled, the scanner is the one the call began with, and
\* what the call recorded comes last in the buffer and in its log.
Undisturbed(c) ==
    /\ c.log = sink
    /\ c.phase = "append" => c.to = c.log
    /\ EndsWith(decisions, c.packages, Buffered(c))
    /\ c.log # None => EndsWith(logs[c.log], c.packages, c.recorded)

CallSound(c) ==
    /\ c.phase = "append" =>
          /\ c.writing.package = c.packages[c.recorded + 1]
          /\ c.writing.log = c.to \/ c.writing.disturbed
    /\ c.phase # "free" /\ ~c.disturbed => Undisturbed(c)

StopSound == startsAfterStop > 0 => ~watching /\ generation \notin sleeping

WatchInv ==
    /\ TypeOK
    /\ LogHoldsItsScans
    /\ OneScanAfterStop /\ StopSound
    /\ \A k \in Slot : CallSound(scan[k])

-----------------------------------------------------------------------------
(* Types                                                                   *)

LEMMA Constants ==
    /\ MaxChanges \in Nat /\ Slot # {} /\ \A l \in List \ {Garbled} : l \in Seq(Packages)
    /\ \A l \in Snapshots : l \in Seq(Packages)
    /\ Free \in Call(Free.found) /\ Free.phase = "free" /\ Free.recorded = 0 /\ Free.to = None
    /\ Free.packages = <<>>
<1>1. MaxChanges \in Nat /\ Slot # {} /\ \A l \in List \ {Garbled} : l \in Seq(Packages)
  BY WatchAssumption
<1>2. ASSUME NEW l \in Snapshots PROVE l \in Seq(Packages)
  <2>1. CASE l = <<>>
    BY <2>1
  <2>2. CASE l \in List \ {Garbled}
    BY <1>1, <2>2
  <2> QED
    BY <2>1, <2>2 DEF Snapshots
<1>3. Free \in Call(Free.found)
  BY DEF Free, Call, Snapshots
<1> QED
  BY <1>1, <1>2, <1>3 DEF Free

LEMMA ConfigTyped ==
    ASSUME NEW c \in Configs
    PROVE  /\ c.log \in Log \union {None} /\ c.dryRun \in BOOLEAN
           /\ c.document \in Documents \union {None}
           /\ c.policy # None => c.policy \in Policies
  BY WatchAssumption DEF Documents, Policies

\* Whatever is at hand, a provider made of it is one.
LEMMA ProviderTyped ==
    ASSUME NEW policy \in Policies, NEW document \in Documents \union {None}, NEW dryRun \in BOOLEAN
    PROVE  Provider(policy, document, dryRun) \in Providers
  BY DEF Provider, Providers

LEMMA PolicyTyped ==
    ASSUME ChainTypeOK, NEW document \in Documents \union {None}
    PROVE  PolicyOf(document) \in Policies
  BY DEF PolicyOf, GetPolicy, Policies, ChainTypeOK

LEMMA ActivatedTyped ==
    ASSUME ChainTypeOK, NEW c \in Configs, Activated(c)
    PROVE  /\ provider' \in Providers
           /\ config' \in [document : Documents \union {None}, dryRun : BOOLEAN]
           /\ globalPolicy' \in HostPolicy \union {None} /\ sink' \in Log \union {None}
<1>1. /\ c.log \in Log \union {None} /\ c.dryRun \in BOOLEAN
      /\ c.document \in Documents \union {None}
      /\ c.policy # None => c.policy \in Policies
  BY ConfigTyped
<1>2. PolicyOf(c.document) \in Policies
  BY <1>1, PolicyTyped
<1>3. (IF c.policy # None THEN c.policy ELSE PolicyOf(c.document)) \in Policies
  BY <1>1, <1>2
<1>4. provider' \in Providers
  BY <1>1, <1>3, ProviderTyped DEF Activated
<1> QED
  BY <1>1, <1>4 DEF Activated, ChainTypeOK

\* A call in a state of its own.
CallTyped(c) ==
    /\ c \in Call(c.found)
    /\ c.phase # "free" => c.provider \in Providers
    /\ c.phase \in {"match", "record", "append"} => c.feed \in Feed
    /\ c.phase \in {"free", "feed", "match"} => c.recorded = 0
    /\ c.recorded <= Len(c.packages)
    /\ c.phase = "append" <=> c.to # None
    /\ c.phase = "append" => c.recorded < Len(c.packages) /\ c.writing \in Recorded

StateTyped ==
    /\ provider \in Providers \union {None}
    /\ config \in [document : Documents \union {None}, dryRun : BOOLEAN]
    /\ globalPolicy \in HostPolicy \union {None}
    /\ sink \in Log \union {None}

LEMMA FreeIsSound == CallTyped(Free) /\ CallSound(Free) /\ CallSound(Free)'
<1>1. Free.phase = "free" /\ Free.recorded = 0 /\ Free.packages = <<>> /\ Free.to = None
  BY DEF Free
<1>2. CallTyped(Free)
  BY <1>1, Constants DEF CallTyped
<1> QED
  BY <1>1, <1>2 DEF CallSound

-----------------------------------------------------------------------------
(* The calls of scanAll through a step                                     *)

\* What is sound of a call c is sound of the slot that has come to it.
LEMMA SoundStays ==
    ASSUME NEW k \in Slot, NEW c, c = scan'[k], CallSound(c)' PROVE CallSound(scan[k])'
  BY DEF CallSound, Undisturbed, Buffered

\* The scanner is another one or the same, and no call goes on.
LEMMA CallsWait ==
    ASSUME WatchInv, StateTyped', UNCHANGED <<sink, decisions, logs, scan>>, feed' \in Feed
    PROVE  ChainTypeOK' /\ LogHoldsItsScans' /\ \A k \in Slot : CallSound(scan[k])'
<1>1. ChainTypeOK'
  BY DEF WatchInv, TypeOK, ChainTypeOK, StateTyped
<1>2. LogHoldsItsScans'
  BY DEF WatchInv, LogHoldsItsScans
<1>3. ASSUME NEW k \in Slot PROVE CallSound(scan[k])'
  <2>1. PICK c : c = scan[k]
    OBVIOUS
  <2>2. CallSound(c)
    BY <2>1 DEF WatchInv
  <2>3. CallSound(c)'
    BY <2>2 DEF CallSound, Undisturbed, Buffered
  <2> QED
    BY <2>1, <2>3, SoundStays
<1> QED
  BY <1>1, <1>2, <1>3

\* The host meddles with the calls under way.
LEMMA CallsDisturbed ==
    ASSUME WatchInv, StateTyped', scan' = Disturbed, decisions' \in Seq(Recorded),
           UNCHANGED <<logs, feed>>
    PROVE  /\ ChainTypeOK' /\ LogHoldsItsScans' /\ \A k \in Slot : CallSound(scan[k])'
           /\ \A k \in Slot : scan'[k].phase = scan[k].phase
<1>1. \A k \in Slot : CallTyped(scan[k])
  BY DEF WatchInv, TypeOK, ChainTypeOK, CallTyped
<1>2. ASSUME NEW k \in Slot
      PROVE  /\ CallTyped(scan'[k]) /\ CallSound(scan[k])'
             /\ scan'[k].phase = scan[k].phase
  <2>1. PICK c : c = scan[k] /\ c \in Call(c.found) /\ CallTyped(c) /\ CallSound(c)
    BY <1>1 DEF WatchInv, CallTyped
  <2>2. PICK b \in BOOLEAN : b = (k \in Underway)
    <3>1. CASE k \in Underway
      <4>1. TRUE = (k \in Underway)
        BY <3>1
      <4> QED
        BY <4>1
    <3>2. CASE k \notin Underway
      <4>1. FALSE = (k \in Underway)
        BY <3>2
      <4> QED
        BY <4>1
    <3> QED
      BY <3>1, <3>2
  <2>3. PICK d : d = [c EXCEPT !.disturbed = b]
    OBVIOUS
  <2>4. d = scan'[k]
    BY <2>1, <2>2, <2>3 DEF Disturbed
  <2>5. /\ d \in Call(d.found) /\ (d.phase # "free" => d.disturbed)
        /\ d.phase = c.phase /\ d.provider = c.provider /\ d.feed = c.feed /\ d.to = c.to
        /\ d.recorded = c.recorded /\ d.packages = c.packages /\ d.writing = c.writing
    BY <2>1, <2>2, <2>3 DEF Call, Underway
  <2>6. CallTyped(d)
    BY <2>1, <2>5 DEF CallTyped
  <2>7. CallSound(d)'
    BY <2>1, <2>5 DEF CallSound
  <2> QED
    BY <2>1, <2>4, <2>5, <2>6, <2>7, SoundStays
<1>3. scan' = [k \in Slot |-> scan'[k]]
  BY DEF Disturbed
<1>4. ChainTypeOK'
  BY <1>2, <1>3 DEF WatchInv, TypeOK, ChainTypeOK, StateTyped, CallTyped
<1>5. LogHoldsItsScans'
  BY DEF WatchInv, LogHoldsItsScans
<1> QED
  BY <1>2, <1>4, <1>5

\* One call goes on, and is the only one.
LEMMA CallGoesOn ==
    ASSUME WatchInv, NEW k \in Slot, step[k] # "no", NEW c, CallTyped(c), CallSound(c)',
           scan' = [scan EXCEPT ![k] = c], StateTyped', decisions' \in Seq(Recorded),
           logs' \in [Log -> Seq(Recorded)], UNCHANGED feed
    PROVE  /\ ChainTypeOK' /\ \A j \in Slot : CallSound(scan[j])'
           /\ scan'[k].phase = c.phase
           /\ \A j \in Slot : j # k => scan'[j].phase = "free" /\ step[j] = "no"
<1>1. /\ scan' = [j \in Slot |-> scan'[j]] /\ scan'[k] = c
      /\ \A j \in Slot : j # k => scan'[j] = scan[j] /\ scan[j].phase = "free"
  <2>1. \A j \in Slot : j # k => step[j] = "no"
    BY DEF WatchInv, TypeOK, WatchTypeOK
  <2> QED
    BY <2>1 DEF WatchInv, TypeOK, ChainTypeOK, WatchTypeOK
<1>5. \A j \in Slot : j # k => step[j] = "no"
  BY DEF WatchInv, TypeOK, WatchTypeOK
<1>2. \A j \in Slot : CallTyped(scan'[j])
  BY <1>1 DEF WatchInv, TypeOK, ChainTypeOK, CallTyped
<1>3. ASSUME NEW j \in Slot PROVE CallSound(scan[j])'
  <2>1. CASE j = k
    BY <1>1, <2>1, SoundStays
  <2>2. CASE j # k
    <3>1. scan'[j].phase = "free"
      BY <1>1, <2>2
    <3> QED
      BY <3>1 DEF CallSound
  <2> QED
    BY <2>1, <2>2
<1>4. ChainTypeOK'
  BY <1>1, <1>2 DEF WatchInv, TypeOK, ChainTypeOK, StateTyped, CallTyped
<1> QED
  BY <1>1, <1>3, <1>4, <1>5

-----------------------------------------------------------------------------
(* What a sequence ends with                                               *)

LEMMA EndsWithNone ==
    ASSUME NEW S, NEW s \in Seq(S), NEW packages PROVE EndsWith(s, packages, 0)
  BY DEF EndsWith

\* What is appended comes after what came last.
LEMMA EndsWithMore ==
    ASSUME NEW S, NEW s \in Seq(S), NEW e \in S, NEW packages, NEW n \in Nat,
           EndsWith(s, packages, n), e.package = packages[n + 1]
    PROVE  EndsWith(Append(s, e), packages, n + 1)
<1> DEFINE t == Append(s, e)
<1>1. /\ Len(t) = Len(s) + 1 /\ Len(s) \in Nat /\ Len(s) >= n
      /\ t[Len(s) + 1] = e /\ \A i \in 1 .. Len(s) : t[i] = s[i]
  BY DEF EndsWith
<1> HIDE DEF t
<1>2. ASSUME NEW i \in 1 .. n + 1 PROVE t[Len(t) - (n + 1) + i].package = packages[i]
  <2>1. Len(t) - (n + 1) + i = Len(s) - n + i
    BY <1>1
  <2>2. CASE i = n + 1
    BY <1>1, <2>1, <2>2
  <2>3. CASE i # n + 1
    <3>1. i \in 1 .. n /\ Len(s) - n + i \in 1 .. Len(s)
      BY <1>1, <2>3
    <3>2. s[Len(s) - n + i].package = packages[i]
      BY <3>1 DEF EndsWith
    <3> QED
      BY <1>1, <2>1, <3>1, <3>2
  <2> QED
    BY <2>2, <2>3
<1>3. Len(t) >= n + 1
  BY <1>1
<1>4. EndsWith(t, packages, n + 1)
  BY <1>2, <1>3 DEF EndsWith
<1> QED
  BY <1>4 DEF t

-----------------------------------------------------------------------------
(* The triggers of the debouncer and the flag                              *)

TimersInv == WatchTypeOK /\ OneScanAfterStop /\ StopSound

\* Nothing of watch mode itself changes, nor what phase a call is in.
LEMMA TimersWait ==
    ASSUME TimersInv, UNCHANGED <<watching, generation, sleeping, scanning, step, unread, missed,
                                  startsAfterStop>>,
           list' \in List, domain' \in Domain, left' \in [changes : Nat, domains : Nat, host : Nat],
           left'.changes <= left.changes,
           \A k \in Slot : scan'[k].phase = "free" <=> scan[k].phase = "free"
    PROVE  TimersInv'
  BY WatchAssumption DEF TimersInv, WatchTypeOK, OneScanAfterStop, StopSound

\* What a change, an edit or a call of the host leaves of its count.
LEMMA SpentIsLess ==
    ASSUME WatchTypeOK, NEW what \in {"changes", "domains", "host"}, Spend(what)
    PROVE  /\ left' \in [changes : Nat, domains : Nat, host : Nat]
           /\ left'.changes = IF what = "changes" THEN left.changes - 1 ELSE left.changes
  BY DEF WatchTypeOK, Spend

LEMMA ChangeKeepsTimers ==
    ASSUME TimersInv, Spend("changes"), Heard, UNCHANGED <<watching, scanning, step, startsAfterStop>>,
           domain' \in Domain, list' \in List,
           \A k \in Slot : scan'[k].phase = scan[k].phase
    PROVE  TimersInv'
<1>1. /\ left' \in [changes : Nat, domains : Nat, host : Nat]
      /\ left'.changes = left.changes - 1
  BY SpentIsLess DEF TimersInv
<1>2. CASE watching
  <2>1. /\ generation' = generation + 1 /\ sleeping' = sleeping \union {generation + 1}
        /\ unread' = TRUE /\ missed' = FALSE
    BY <1>2 DEF Heard, OnChange
  <2>2. generation' \in Nat /\ generation' + left'.changes <= MaxChanges
    BY <1>1, <2>1, WatchAssumption DEF TimersInv, WatchTypeOK
  <2>3. sleeping' \subseteq 1 .. generation'
    <3>1. generation \in Nat /\ sleeping \subseteq 1 .. generation
      BY DEF TimersInv, WatchTypeOK
    <3>2. \A n \in 1 .. generation : n \in 1 .. generation + 1
      BY <3>1
    <3>3. generation + 1 \in 1 .. generation + 1
      BY <3>1
    <3> QED
      BY <2>1, <3>1, <3>2, <3>3
  <2>4. WatchTypeOK'
    BY <1>1, <2>1, <2>2, <2>3 DEF TimersInv, WatchTypeOK
  <2> QED
    BY <1>2, <2>4 DEF TimersInv, OneScanAfterStop, StopSound
<1>3. CASE ~watching
  BY <1>1, <1>3, TimersWait DEF Heard, TimersInv, WatchTypeOK
<1> QED
  BY <1>2, <1>3

\* A callback; no call changes its phase.
LEMMA CallbackKeepsTimers ==
    ASSUME TimersInv, NEW g \in sleeping, Callback(g)
    PROVE  TimersInv'
<1>1. /\ sleeping' = sleeping \ {g} /\ g \in 1 .. generation
      /\ UNCHANGED <<chainVars, list, domain, watching, generation, unread, left>>
  BY DEF Callback, Wakes, TimersInv, WatchTypeOK
<1>2. UNCHANGED scan
  BY <1>1 DEF chainVars
<1>3. CASE UNCHANGED <<scanning, step, startsAfterStop>> /\ missed' \in BOOLEAN
  BY <1>1, <1>2, <1>3 DEF TimersInv, WatchTypeOK, OneScanAfterStop, StopSound
<1>4. CASE g = generation /\ ~scanning /\ Starts
  <2>1. \A k \in Slot : step[k] = "no"
    BY <1>4 DEF TimersInv, WatchTypeOK
  <2>2. PICK free : free = FreeSlot
    OBVIOUS
  <2>3. free \in Slot
    BY <2>1, <2>2, WatchAssumption DEF FreeSlot
  <2>4. /\ step' = [step EXCEPT ![free] = "list"] /\ scanning' = TRUE /\ missed' = missed
        /\ startsAfterStop' = startsAfterStop + (IF watching THEN 0 ELSE 1)
    BY <1>4, <2>2 DEF Starts
  <2>5. /\ step' \in [Slot -> {"no", "list", "domain", "scan"}] /\ step'[free] = "list"
        /\ \A k \in Slot : k # free => step'[k] = "no"
    BY <2>1, <2>3, <2>4 DEF TimersInv, WatchTypeOK
  <2>6. startsAfterStop' \in Nat
    BY <2>4 DEF TimersInv, WatchTypeOK
  <2>7. WatchTypeOK'
    BY <1>1, <1>2, <2>1, <2>3, <2>4, <2>5, <2>6 DEF TimersInv, WatchTypeOK
  <2>8. startsAfterStop = 0
    BY <1>4 DEF TimersInv, WatchTypeOK, StopSound
  <2>9. OneScanAfterStop' /\ StopSound'
    BY <1>1, <1>4, <2>4, <2>8 DEF OneScanAfterStop, StopSound
  <2> QED
    BY <2>7, <2>9 DEF TimersInv
<1> QED
  BY <1>1, <1>3, <1>4 DEF Callback, Dropped, TimersInv, WatchTypeOK

-----------------------------------------------------------------------------
(* The steps of a call                                                     *)

LEMMA WatchInvSplits == WatchInv <=> /\ ChainTypeOK /\ LogHoldsItsScans /\ TimersInv
                                     /\ \A k \in Slot : CallSound(scan[k])
  BY DEF WatchInv, TypeOK, TimersInv

\* What is known of a call, whatever its slot.
LEMMA CallInSlot ==
    ASSUME WatchInv, NEW k \in Slot
    PROVE  /\ CallTyped(scan[k]) /\ CallSound(scan[k])
           /\ step[k] = "scan" <=> scan[k].phase # "free"
           /\ scan[k].packages \in Seq(Packages) /\ scan[k].recorded \in Nat
           /\ StateTyped /\ decisions \in Seq(Recorded) /\ logs \in [Log -> Seq(Recorded)]
           /\ scan = [j \in Slot |-> scan[j]]
<1>1. CallTyped(scan[k]) /\ CallSound(scan[k])
  BY DEF WatchInv, TypeOK, ChainTypeOK, CallTyped
<1>2. scan[k].packages \in Snapshots /\ scan[k].recorded \in Nat
  BY <1>1 DEF CallTyped, Call
<1> QED
  BY <1>1, <1>2, Constants DEF WatchInv, TypeOK, ChainTypeOK, WatchTypeOK, StateTyped

\* A call that is scanning goes on and is scanning still.
LEMMA ScanningKeeps ==
    ASSUME WatchInv, NEW k \in Slot, scan[k].phase # "free", NEW d, d.phase # "free",
           CallTyped(d), CallSound(d)', scan' = [scan EXCEPT ![k] = d],
           decisions' \in Seq(Recorded), logs' \in [Log -> Seq(Recorded)], LogHoldsItsScans',
           UNCHANGED <<stateVars, feed, watchVars>>
    PROVE  WatchInv'
<1>1. step[k] # "no" /\ StateTyped'
  BY CallInSlot DEF StateTyped, stateVars
<1>2. /\ ChainTypeOK' /\ \A j \in Slot : CallSound(scan[j])'
      /\ scan'[k].phase = d.phase
      /\ \A j \in Slot : j # k => scan'[j].phase = "free" /\ step[j] = "no"
  BY <1>1, CallGoesOn
<1>3. \A j \in Slot : scan'[j].phase = "free" <=> scan[j].phase = "free"
  BY <1>2, CallInSlot
<1>4. TimersInv'
  <2>1. TimersInv /\ WatchTypeOK
    BY WatchInvSplits DEF TimersInv
  <2>2. /\ UNCHANGED <<watching, generation, sleeping, scanning, step, unread, missed, startsAfterStop>>
        /\ list' \in List /\ domain' \in Domain
        /\ left' \in [changes : Nat, domains : Nat, host : Nat] /\ left'.changes <= left.changes
    BY <2>1 DEF watchVars, WatchTypeOK
  <2> QED
    BY <1>3, <2>1, <2>2, TimersWait
<1> QED
  BY <1>2, <1>4 DEF WatchInv, TypeOK, TimersInv

LEMMA LoadFeedKeeps ==
    ASSUME WatchInv, NEW k \in Slot, LoadFeed(k), UNCHANGED watchVars PROVE WatchInv'
<1>1. PICK c : c = scan[k]
  OBVIOUS
<1>2. PICK d : d = [c EXCEPT !.phase = "match", !.feed = feed]
  OBVIOUS
<1>3. /\ c.phase = "feed" /\ scan' = [scan EXCEPT ![k] = d]
      /\ UNCHANGED <<stateVars, decisions, logs, feed>>
  BY <1>1, <1>2 DEF LoadFeed
<1>4. CallTyped(c) /\ CallSound(c) /\ feed \in Feed
  BY <1>1, CallInSlot DEF WatchInv, TypeOK, ChainTypeOK
<1>5. CallTyped(d) /\ d.phase = "match"
  BY <1>2, <1>3, <1>4 DEF CallTyped, Call
<1>6. CallSound(d)
  BY <1>2, <1>3, <1>4 DEF CallSound, Undisturbed, Buffered, CallTyped, Call
<1>7. CallSound(d)'
  BY <1>3, <1>6 DEF CallSound, Undisturbed, Buffered, stateVars
<1>8. /\ decisions' \in Seq(Recorded) /\ logs' \in [Log -> Seq(Recorded)]
      /\ LogHoldsItsScans'
  BY <1>3, CallInSlot DEF WatchInv, LogHoldsItsScans
<1> QED
  BY <1>1, <1>3, <1>5, <1>7, <1>8, ScanningKeeps

LEMMA MatchPackagesKeeps ==
    ASSUME WatchInv, NEW k \in Slot, MatchPackages(k), UNCHANGED watchVars PROVE WatchInv'
<1>1. PICK c : c = scan[k]
  OBVIOUS
<1>2. PICK d : d = [c EXCEPT !.phase = "record", !.found = Scan(c.provider, c.packages, c.feed)]
  OBVIOUS
<1>3. /\ c.phase = "match" /\ scan' = [scan EXCEPT ![k] = d]
      /\ UNCHANGED <<stateVars, decisions, logs, feed>>
  BY <1>1, <1>2 DEF MatchPackages
<1>4. CallTyped(c) /\ CallSound(c)
  BY <1>1, CallInSlot
<1>5. CallTyped(d) /\ d.phase = "record"
  BY <1>2, <1>3, <1>4 DEF CallTyped, Call
<1>6. CallSound(d)
  BY <1>2, <1>3, <1>4 DEF CallSound, Undisturbed, Buffered, CallTyped, Call
<1>7. CallSound(d)'
  BY <1>3, <1>6 DEF CallSound, Undisturbed, Buffered, stateVars
<1>8. /\ decisions' \in Seq(Recorded) /\ logs' \in [Log -> Seq(Recorded)]
      /\ LogHoldsItsScans'
  BY <1>3, CallInSlot DEF WatchInv, LogHoldsItsScans
<1> QED
  BY <1>1, <1>3, <1>5, <1>7, <1>8, ScanningKeeps

LEMMA RecordDecisionKeeps ==
    ASSUME WatchInv, NEW k \in Slot, RecordDecision(k), UNCHANGED watchVars PROVE WatchInv'
<1>1. PICK c : c = scan[k]
  OBVIOUS
<1>2. PICK e : e = Decision(k, c.packages[c.recorded + 1])
  OBVIOUS
<1>3. /\ c.phase = "record" /\ c.recorded < Len(c.packages)
      /\ CallTyped(c) /\ CallSound(c) /\ c.packages \in Seq(Packages) /\ c.recorded \in Nat
      /\ decisions \in Seq(Recorded) /\ c \in Call(c.found)
  BY <1>1, CallInSlot DEF RecordDecision, CallTyped
<1>4. /\ e \in Recorded /\ e.package = c.packages[c.recorded + 1]
      /\ e.log = c.log /\ e.disturbed = c.disturbed
  <2>1. c.packages[c.recorded + 1] \in Packages
    BY <1>3
  <2>2. /\ c.log \in Log \union {None} /\ c.disturbed \in BOOLEAN /\ c.provider \in Providers
        /\ c.feed \in Feed
    BY <1>3 DEF CallTyped, Call
  <2> QED
    BY <1>1, <1>2, <2>1, <2>2 DEF Decision, Recorded
<1>5. decisions' = Append(decisions, e) /\ UNCHANGED <<stateVars, logs, feed>>
  BY <1>1, <1>2 DEF RecordDecision
<1>6. /\ decisions' \in Seq(Recorded) /\ logs' \in [Log -> Seq(Recorded)]
      /\ LogHoldsItsScans'
  BY <1>4, <1>5, CallInSlot DEF WatchInv, LogHoldsItsScans
<1>7. EndsWith(decisions, c.packages, c.recorded) => EndsWith(decisions', c.packages, c.recorded + 1)
  BY <1>3, <1>4, <1>5, EndsWithMore
<1>8. c.log # None /\ EndsWith(logs[c.log], c.packages, c.recorded)
        => EndsWith(logs'[c.log], c.packages, c.recorded)
  BY <1>5
<1>9. CASE sink = None
  <2>1. PICK d : d = [c EXCEPT !.recorded = c.recorded + 1]
    OBVIOUS
  <2>2. scan' = [scan EXCEPT ![k] = d]
    BY <1>1, <1>9, <2>1 DEF RecordDecision
  <2>3. /\ d.phase = "record" /\ d.recorded = c.recorded + 1 /\ d.packages = c.packages
        /\ d.log = c.log /\ d.disturbed = c.disturbed
    BY <1>3, <2>1 DEF Call
  <2>4. CallTyped(d)
    BY <1>3, <2>1 DEF CallTyped, Call
  <2>5. CallSound(d)'
    BY <1>3, <1>5, <1>7, <1>9, <2>3 DEF CallSound, Undisturbed, Buffered, stateVars
  <2> QED
    BY <1>1, <1>3, <1>5, <1>6, <2>2, <2>3, <2>4, <2>5, ScanningKeeps
<1>10. CASE sink # None
  <2>1. PICK d : d = [c EXCEPT !.phase = "append", !.writing = e, !.to = sink]
    OBVIOUS
  <2>2. scan' = [scan EXCEPT ![k] = d]
    BY <1>1, <1>2, <1>10, <2>1 DEF RecordDecision
  <2>3. /\ d.phase = "append" /\ d.recorded = c.recorded /\ d.packages = c.packages
        /\ d.log = c.log /\ d.disturbed = c.disturbed /\ d.writing = e /\ d.to = sink
    BY <1>3, <2>1 DEF Call
  <2>4. CallTyped(d)
    <3>1. sink \in Log
      BY <1>10, CallInSlot DEF StateTyped
    <3> QED
      BY <1>3, <1>4, <1>10, <2>1, <3>1 DEF CallTyped, Call
  <2>5. CallSound(d)'
    BY <1>3, <1>4, <1>5, <1>7, <1>8, <2>3 DEF CallSound, Undisturbed, Buffered, stateVars
  <2> QED
    BY <1>1, <1>3, <1>5, <1>6, <2>2, <2>3, <2>4, <2>5, ScanningKeeps
<1> QED
  BY <1>9, <1>10

LEMMA AppendDecisionKeeps ==
    ASSUME WatchInv, NEW k \in Slot, AppendDecision(k), UNCHANGED watchVars PROVE WatchInv'
<1>1. PICK c : c = scan[k]
  OBVIOUS
<1>2. PICK d : d = [c EXCEPT !.phase = "record", !.recorded = c.recorded + 1,
                             !.writing = None, !.to = None]
  OBVIOUS
<1>3. /\ c.phase = "append" /\ CallTyped(c) /\ CallSound(c)
      /\ c.packages \in Seq(Packages) /\ c.recorded \in Nat
      /\ logs \in [Log -> Seq(Recorded)] /\ c \in Call(c.found)
  BY <1>1, CallInSlot DEF AppendDecision, CallTyped
<1>4. /\ c.to \in Log /\ c.writing \in Recorded /\ c.recorded < Len(c.packages)
      /\ c.writing.package = c.packages[c.recorded + 1]
      /\ c.writing.log = c.to \/ c.writing.disturbed
  BY <1>3 DEF CallTyped, Call, CallSound
<1>5. /\ scan' = [scan EXCEPT ![k] = d] /\ UNCHANGED <<stateVars, decisions, feed>>
      /\ logs' = [logs EXCEPT ![c.to] = Append(@, c.writing)]
  BY <1>1, <1>2 DEF AppendDecision, GoesOn
<1>6. /\ logs' \in [Log -> Seq(Recorded)] /\ logs'[c.to] = Append(logs[c.to], c.writing)
      /\ \A l \in Log : l # c.to => logs'[l] = logs[l]
  BY <1>3, <1>4, <1>5
<1>7. LogHoldsItsScans'
  <2>1. ASSUME NEW l \in Log, NEW i \in 1 .. Len(logs'[l])
        PROVE  logs'[l][i].log = l \/ logs'[l][i].disturbed
    <3>1. CASE l = c.to /\ i = Len(logs[l]) + 1
      BY <1>3, <1>4, <1>6, <3>1
    <3>2. CASE l # c.to \/ i # Len(logs[l]) + 1
      <4>1. i \in 1 .. Len(logs[l]) /\ logs'[l][i] = logs[l][i]
        <5>1. CASE l # c.to
          BY <1>6, <2>1, <5>1
        <5>2. CASE l = c.to
          BY <1>3, <1>4, <1>6, <2>1, <3>2, <5>2, AppendProperties
        <5> QED
          BY <5>1, <5>2
      <4> QED
        BY <1>3, <4>1 DEF WatchInv, LogHoldsItsScans
    <3> QED
      BY <3>1, <3>2
  <2>2. \A l \in Log : DOMAIN logs'[l] = 1 .. Len(logs'[l])
    BY <1>6
  <2> QED
    BY <2>1, <2>2 DEF LogHoldsItsScans
<1>8. EndsWith(logs[c.to], c.packages, c.recorded) => EndsWith(logs'[c.to], c.packages, c.recorded + 1)
  BY <1>3, <1>4, <1>6, EndsWithMore
<1>9. /\ d.phase = "record" /\ d.recorded = c.recorded + 1 /\ d.packages = c.packages
      /\ d.log = c.log /\ d.disturbed = c.disturbed
  BY <1>2, <1>3 DEF Call
<1>10. CallTyped(d)
  <2>1. d \in Call(d.found) /\ d.provider = c.provider /\ d.feed = c.feed /\ d.to = None
    <3>1. c.recorded + 1 \in Nat
      BY <1>3
    <3>2. c \in Call(c.found)
      BY <1>3
    <3> QED
      BY <1>2, <3>1, <3>2 DEF Call
  <2>2. c.recorded + 1 <= Len(c.packages)
    BY <1>3, <1>4
  <2> QED
    BY <1>3, <1>9, <2>1, <2>2 DEF CallTyped
<1>11. CallSound(d)'
  BY <1>3, <1>5, <1>8, <1>9 DEF CallSound, Undisturbed, Buffered, stateVars
<1>12. decisions' \in Seq(Recorded)
  BY <1>5, CallInSlot
<1> QED
  BY <1>1, <1>3, <1>5, <1>6, <1>7, <1>9, <1>10, <1>11, <1>12, ScanningKeeps

-----------------------------------------------------------------------------
(* The steps of performScan                                                *)

\* performScan is over, whatever it did.
LEMMA EndsKeeps ==
    ASSUME WatchInv, NEW k \in Slot, step[k] # "no", Ends(k), unread' \in BOOLEAN,
           UNCHANGED <<stateVars, decisions, logs, feed, list, domain, watching, generation,
                       sleeping, missed, startsAfterStop, left>>
    PROVE  WatchInv'
<1>1. StateTyped' /\ decisions' \in Seq(Recorded) /\ logs' \in [Log -> Seq(Recorded)]
  BY CallInSlot DEF StateTyped, stateVars
<1>2. /\ ChainTypeOK' /\ \A j \in Slot : CallSound(scan[j])'
      /\ scan'[k].phase = "free"
      /\ \A j \in Slot : j # k => scan'[j].phase = "free" /\ step[j] = "no"
  BY <1>1, CallGoesOn, FreeIsSound, Constants DEF Ends
<1>3. \A j \in Slot : scan'[j].phase = "free"
  BY <1>2
<1>4. /\ step' \in [Slot -> {"no", "list", "domain", "scan"}]
      /\ \A j \in Slot : step'[j] = "no"
  BY <1>2 DEF Ends, WatchInv, TypeOK, WatchTypeOK
<1>5. WatchTypeOK'
  BY <1>3, <1>4 DEF Ends, WatchInv, TypeOK, WatchTypeOK
<1>6. LogHoldsItsScans' /\ OneScanAfterStop' /\ StopSound'
  BY DEF WatchInv, LogHoldsItsScans, OneScanAfterStop, StopSound
<1> QED
  BY <1>2, <1>5, <1>6 DEF WatchInv, TypeOK

LEMMA ReadListKeeps ==
    ASSUME WatchInv, NEW k \in Slot, ReadList(k) PROVE WatchInv'
<1>1. step[k] = "list" /\ unread' = FALSE
  BY DEF ReadList
<1>2. UNCHANGED <<stateVars, decisions, logs, feed, list, domain, watching, generation,
                  sleeping, missed, startsAfterStop, left>>
  BY DEF ReadList
<1>3. CASE list \in {<<>>, Garbled}
  BY <1>1, <1>2, <1>3, EndsKeeps DEF ReadList
<1>4. CASE list \notin {<<>>, Garbled}
  <2>1. PICK c : c = scan[k]
    OBVIOUS
  <2>2. PICK d : d = [c EXCEPT !.packages = list]
    OBVIOUS
  <2>3. /\ scan' = [scan EXCEPT ![k] = d] /\ step' = [step EXCEPT ![k] = "domain"]
        /\ UNCHANGED scanning
    BY <1>4, <2>1, <2>2 DEF ReadList
  <2>4. CallTyped(c) /\ c.phase = "free"
    BY <1>1, <2>1, CallInSlot
  <2>5. list \in Snapshots /\ list \in Seq(Packages)
    BY <1>4, Constants DEF Snapshots, WatchInv, TypeOK, WatchTypeOK
  <2>6. CallTyped(d) /\ d.phase = "free"
    BY <2>2, <2>4, <2>5 DEF CallTyped, Call
  <2>7. CallSound(d)'
    BY <2>6 DEF CallSound
  <2>8. StateTyped' /\ decisions' \in Seq(Recorded) /\ logs' \in [Log -> Seq(Recorded)]
    BY <1>2, CallInSlot DEF StateTyped, stateVars
  <2>9. /\ ChainTypeOK' /\ \A j \in Slot : CallSound(scan[j])'
        /\ scan'[k].phase = "free"
        /\ \A j \in Slot : j # k => scan'[j].phase = "free" /\ step[j] = "no"
    BY <1>1, <1>2, <2>3, <2>6, <2>7, <2>8, CallGoesOn
  <2>10. /\ step' \in [Slot -> {"no", "list", "domain", "scan"}] /\ step'[k] = "domain"
         /\ \A j \in Slot : j # k => step'[j] = "no"
    BY <2>3, <2>9 DEF WatchInv, TypeOK, WatchTypeOK
  <2>11. scanning
    BY <1>1 DEF WatchInv, TypeOK, WatchTypeOK
  <2>12. WatchTypeOK'
    BY <1>1, <1>2, <2>3, <2>9, <2>10, <2>11 DEF WatchInv, TypeOK, WatchTypeOK
  <2>13. LogHoldsItsScans' /\ OneScanAfterStop' /\ StopSound'
    BY <1>2 DEF WatchInv, LogHoldsItsScans, OneScanAfterStop, StopSound
  <2> QED
    BY <2>9, <2>12, <2>13 DEF WatchInv, TypeOK
<1> QED
  BY <1>3, <1>4

LEMMA ReadDomainKeeps ==
    ASSUME WatchInv, NEW k \in Slot, ReadDomain(k) PROVE WatchInv'
<1>1. step[k] = "domain" /\ step' = [step EXCEPT ![k] = "scan"]
  BY DEF ReadDomain
<1>2. UNCHANGED <<decisions, logs, feed, list, domain, watching, generation, sleeping,
                  scanning, unread, missed, startsAfterStop, left>>
  BY DEF ReadDomain
<1>3. ChainTypeOK /\ CallTyped(scan[k]) /\ scan[k].packages \in Seq(Packages) /\ StateTyped
  BY CallInSlot DEF WatchInv, TypeOK
<1>4. StateTyped'
  <2>1. CASE domain # None /\ domain.enabled
    <3>1. domain.config \in Configs /\ Activated(domain.config)
      BY <2>1 DEF ReadDomain, Configs, WatchInv, TypeOK, WatchTypeOK
    <3> QED
      BY <1>3, <3>1, ActivatedTyped DEF StateTyped
  <2>2. CASE ~(domain # None /\ domain.enabled)
    BY <1>3, <2>2 DEF ReadDomain, stateVars, StateTyped
  <2> QED
    BY <2>1, <2>2
<1>5. PICK d : d = Called(scan[k].packages, provider', sink')
  OBVIOUS
<1>6. PICK p \in Providers : d = [Free EXCEPT !.phase = "feed", !.packages = scan[k].packages,
                                             !.log = sink', !.provider = p]
  <2>1. CASE provider' # None
    BY <1>4, <1>5, <2>1 DEF Called, StateTyped
  <2>2. CASE provider' = None
    <3>1. /\ config.document \in Documents \union {None} /\ config.dryRun \in BOOLEAN
      BY <1>3 DEF StateTyped
    <3>2. PolicyOf(config.document) \in Policies
      BY <1>3, <3>1, PolicyTyped
    <3>3. Provider(PolicyOf(config.document), config.document, config.dryRun) \in Providers
      BY <3>1, <3>2, ProviderTyped
    <3> QED
      BY <1>5, <2>2, <3>3 DEF Called
  <2> QED
    BY <2>1, <2>2
<1>7. /\ d \in Call(d.found) /\ d.phase = "feed" /\ d.packages = scan[k].packages /\ d.provider = p
      /\ d.log = sink' /\ d.recorded = 0 /\ d.to = None
  <2>1. scan[k].packages \in Snapshots
    BY <1>3 DEF CallTyped, Call
  <2> QED
    BY <1>4, <1>6, <2>1 DEF Free, Call, StateTyped
<1>8. CallTyped(d)
  BY <1>3, <1>7 DEF CallTyped
<1>9. decisions' \in Seq(Recorded) /\ logs' \in [Log -> Seq(Recorded)]
  BY <1>2, CallInSlot
<1>10. CallSound(d)'
  <2>1. EndsWith(decisions', d.packages, 0)
    BY <1>9, EndsWithNone
  <2>2. d.log # None => EndsWith(logs'[d.log], d.packages, 0)
    <3>1. d.log # None => logs'[d.log] \in Seq(Recorded)
      BY <1>4, <1>7, <1>9 DEF StateTyped
    <3> QED
      BY <3>1, EndsWithNone
  <2> QED
    BY <1>7, <2>1, <2>2 DEF CallSound, Undisturbed, Buffered
<1>11. scan' = [scan EXCEPT ![k] = d]
  BY <1>5 DEF ReadDomain
<1>12. /\ ChainTypeOK' /\ \A j \in Slot : CallSound(scan[j])'
       /\ scan'[k].phase = "feed"
       /\ \A j \in Slot : j # k => scan'[j].phase = "free" /\ step[j] = "no"
  BY <1>1, <1>2, <1>4, <1>7, <1>8, <1>9, <1>10, <1>11, CallGoesOn
<1>13. /\ step' \in [Slot -> {"no", "list", "domain", "scan"}] /\ step'[k] = "scan"
       /\ \A j \in Slot : j # k => step'[j] = "no"
  BY <1>1, <1>12 DEF WatchInv, TypeOK, WatchTypeOK
<1>14. scanning
  BY <1>1 DEF WatchInv, TypeOK, WatchTypeOK
<1>15. WatchTypeOK'
  BY <1>2, <1>12, <1>13, <1>14 DEF WatchInv, TypeOK, WatchTypeOK
<1>16. LogHoldsItsScans' /\ OneScanAfterStop' /\ StopSound'
  BY <1>2 DEF WatchInv, LogHoldsItsScans, OneScanAfterStop, StopSound
<1> QED
  BY <1>12, <1>15, <1>16 DEF WatchInv, TypeOK

-----------------------------------------------------------------------------
(* The world and the host                                                  *)

\* The calls under way, as a step of somebody else leaves them.
LEMMA WaitingKeeps ==
    ASSUME WatchInv, TimersInv', UNCHANGED <<stateVars, decisions, logs, scan>>, feed' \in Feed
    PROVE  WatchInv'
<1>1. StateTyped'
  BY DEF WatchInv, TypeOK, ChainTypeOK, StateTyped, stateVars
<1>2. ChainTypeOK' /\ LogHoldsItsScans' /\ \A k \in Slot : CallSound(scan[k])'
  BY <1>1, CallsWait DEF stateVars
<1> QED
  BY <1>2 DEF WatchInv, TypeOK, TimersInv

LEMMA ChangeListKeeps ==
    ASSUME WatchInv, NEW l \in List, ChangeList(l) PROVE WatchInv'
<1>1. TimersInv /\ domain \in Domain /\ feed \in Feed
  BY DEF WatchInv, TypeOK, ChainTypeOK, TimersInv, WatchTypeOK
<1>2. /\ Spend("changes") /\ Heard /\ list' = l
      /\ UNCHANGED <<chainVars, domain, watching, scanning, step, startsAfterStop>>
  BY DEF ChangeList
<1>3. UNCHANGED <<stateVars, decisions, logs, scan, feed>>
  BY <1>2 DEF chainVars
<1>4. TimersInv'
  BY <1>1, <1>2, <1>3, ChangeKeepsTimers
<1> QED
  BY <1>1, <1>3, <1>4, WaitingKeeps

LEMMA ChangeFeedKeeps ==
    ASSUME WatchInv, NEW f \in Feed, ChangeFeed(f) PROVE WatchInv'
<1>1. TimersInv /\ domain \in Domain /\ list \in List
  BY DEF WatchInv, TypeOK, TimersInv, WatchTypeOK
<1>2. /\ Spend("changes") /\ Heard /\ feed' = f
      /\ UNCHANGED <<list, domain, watching, scanning, step, startsAfterStop>>
      /\ UNCHANGED <<stateVars, decisions, logs, scan>>
  BY DEF ChangeFeed, PublishFeed
<1>3. TimersInv'
  BY <1>1, <1>2, ChangeKeepsTimers
<1> QED
  BY <1>2, <1>3, WaitingKeeps

LEMMA ChangeDomainKeeps ==
    ASSUME WatchInv, NEW d \in Domain, ChangeDomain(d) PROVE WatchInv'
<1>1. TimersInv /\ WatchTypeOK /\ list \in List /\ feed \in Feed
  BY DEF WatchInv, TypeOK, TimersInv, WatchTypeOK, ChainTypeOK
<1>2. /\ Spend("domains") /\ domain' = d
      /\ UNCHANGED <<chainVars, list, watching, generation, sleeping, scanning, step,
                     unread, missed, startsAfterStop>>
  BY DEF ChangeDomain
<1>3. UNCHANGED <<stateVars, decisions, logs, scan, feed>>
  BY <1>2 DEF chainVars
<1>4. /\ left' \in [changes : Nat, domains : Nat, host : Nat] /\ left'.changes <= left.changes
  BY <1>1, <1>2, SpentIsLess DEF WatchTypeOK
<1>5. TimersInv'
  BY <1>1, <1>2, <1>3, <1>4, TimersWait
<1> QED
  BY <1>1, <1>3, <1>5, WaitingKeeps

LEMMA ShutdownKeeps ==
    ASSUME WatchInv, Shutdown PROVE WatchInv'
<1>1. UNCHANGED <<stateVars, decisions, logs, scan, feed>> /\ feed \in Feed
  BY DEF Shutdown, chainVars, WatchInv, TypeOK, ChainTypeOK
<1>2. TimersInv'
  BY <1>1 DEF Shutdown, WatchInv, TypeOK, TimersInv, WatchTypeOK, OneScanAfterStop, StopSound
<1> QED
  BY <1>1, <1>2, WaitingKeeps

LEMMA HostKeeps ==
    ASSUME WatchInv, Host PROVE WatchInv'
<1>1. /\ Spend("host")
      /\ UNCHANGED <<list, domain, watching, generation, sleeping, scanning, step,
                     unread, missed, startsAfterStop>>
  BY DEF Host
<1>2. TimersInv /\ WatchTypeOK /\ ChainTypeOK /\ StateTyped
  BY DEF WatchInv, TypeOK, TimersInv, ChainTypeOK, StateTyped
<1>3. /\ left' \in [changes : Nat, domains : Nat, host : Nat] /\ left'.changes <= left.changes
      /\ list' \in List /\ domain' \in Domain
  BY <1>1, <1>2, SpentIsLess DEF WatchTypeOK
<1>4. ASSUME NEW p \in HostPolicy \union {None}, SetSeverityPolicy(p) PROVE WatchInv'
  <2>1. (IF p = None THEN DefaultPolicy ELSE p) \in Policies
    BY DEF Policies
  <2>2. config.document \in Documents \union {None} /\ config.dryRun \in BOOLEAN
    BY <1>2 DEF StateTyped
  <2>3. provider' \in Providers \union {None}
    BY <1>4, <2>1, <2>2, ProviderTyped DEF SetSeverityPolicy
  <2>4. StateTyped' /\ feed' \in Feed /\ UNCHANGED <<sink, decisions, logs, scan>>
    BY <1>2, <1>4, <2>3 DEF SetSeverityPolicy, StateTyped, ChainTypeOK
  <2>5. ChainTypeOK' /\ LogHoldsItsScans' /\ \A k \in Slot : CallSound(scan[k])'
    BY <2>4, CallsWait
  <2>6. TimersInv'
    BY <1>1, <1>2, <1>3, <2>4, TimersWait
  <2> QED
    BY <2>5, <2>6 DEF WatchInv, TypeOK, TimersInv
<1>5. ASSUME StateTyped', scan' = Disturbed, decisions' \in Seq(Recorded), UNCHANGED <<logs, feed>>
      PROVE  WatchInv'
  <2>1. /\ ChainTypeOK' /\ LogHoldsItsScans' /\ \A k \in Slot : CallSound(scan[k])'
        /\ \A k \in Slot : scan'[k].phase = scan[k].phase
    BY <1>5, CallsDisturbed
  <2>2. TimersInv'
    BY <1>1, <1>2, <1>3, <2>1, TimersWait
  <2> QED
    BY <2>1, <2>2 DEF WatchInv, TypeOK, TimersInv
<1>6. ASSUME NEW c \in HostConfig, Activate(c) PROVE WatchInv'
  <2>1. c \in Configs /\ Activated(c)
    BY <1>6 DEF Configs, Activate
  <2>2. StateTyped'
    BY <1>2, <2>1, ActivatedTyped DEF StateTyped
  <2> QED
    BY <1>2, <1>5, <1>6, <2>2 DEF Activate, ChainTypeOK
<1>7. CASE Deactivate
  <2>1. StateTyped'
    BY <1>7 DEF Deactivate, StateTyped, Inactive
  <2> QED
    BY <1>5, <1>7, <2>1 DEF Deactivate
<1>8. CASE ClearAuditBuffer
  <2>1. StateTyped'
    BY <1>2, <1>8 DEF ClearAuditBuffer, StateTyped, stateVars
  <2> QED
    BY <1>5, <1>8, <2>1 DEF ClearAuditBuffer
<1> QED
  BY <1>4, <1>6, <1>7, <1>8 DEF Host

LEMMA CallbackKeeps ==
    ASSUME WatchInv, NEW g \in sleeping, Callback(g) PROVE WatchInv'
<1>1. UNCHANGED <<stateVars, decisions, logs, scan, feed>> /\ feed \in Feed
  BY DEF Callback, chainVars, WatchInv, TypeOK, ChainTypeOK
<1>2. TimersInv'
  BY WatchInvSplits, CallbackKeepsTimers
<1> QED
  BY <1>1, <1>2, WaitingKeeps

-----------------------------------------------------------------------------
(* The invariant                                                           *)

LEMMA WatchInvInit == Init => WatchInv
<1> SUFFICES ASSUME Init PROVE WatchInv
  OBVIOUS
<1>1. \A k \in Slot : scan[k] = Free
  BY DEF Init, ChainInit
<1>2. ChainTypeOK
  <2>1. \A k \in Slot : CallTyped(scan[k])
    BY <1>1, FreeIsSound
  <2>2. scan = [k \in Slot |-> scan[k]]
    BY <1>1 DEF Init, ChainInit
  <2>3. config \in [document : Documents \union {None}, dryRun : BOOLEAN]
    BY DEF Init, ChainInit, Inactive
  <2>4. decisions \in Seq(Recorded) /\ logs \in [Log -> Seq(Recorded)]
    BY DEF Init, ChainInit
  <2> QED
    BY <2>1, <2>2, <2>3, <2>4 DEF Init, ChainInit, ChainTypeOK, CallTyped
<1>3. WatchTypeOK
  <2>1. \A k \in Slot : scan[k].phase = "free"
    BY <1>1 DEF Free
  <2> QED
    <3>1. MaxChanges \in Nat /\ MaxDomains \in Nat /\ MaxHost \in Nat
      BY WatchAssumption
    <3>2. /\ left \in [changes : Nat, domains : Nat, host : Nat] /\ left.changes = MaxChanges
          /\ generation + left.changes <= MaxChanges
      BY <3>1 DEF Init
    <3>3. \A k \in Slot : step[k] = "no"
      BY DEF Init
    <3>4. scanning <=> \E k \in Slot : step[k] # "no"
      BY <3>3 DEF Init
    <3> QED
      BY <2>1, <3>2, <3>3, <3>4 DEF Init, WatchTypeOK
<1>4. LogHoldsItsScans /\ OneScanAfterStop /\ StopSound
  BY DEF Init, ChainInit, LogHoldsItsScans, OneScanAfterStop, StopSound
<1>5. \A k \in Slot : CallSound(scan[k])
  BY <1>1, FreeIsSound
<1> QED
  BY <1>2, <1>3, <1>4, <1>5 DEF WatchInv, TypeOK

LEMMA WatchInvStep == WatchInv /\ [Next]_vars => WatchInv'
<1> SUFFICES ASSUME WatchInv, [Next]_vars PROVE WatchInv'
  OBVIOUS
<1>1. ASSUME NEW l \in List, ChangeList(l) PROVE WatchInv'
  BY <1>1, ChangeListKeeps
<1>2. ASSUME NEW f \in Feed, ChangeFeed(f) PROVE WatchInv'
  BY <1>2, ChangeFeedKeeps
<1>3. ASSUME NEW d \in Domain, ChangeDomain(d) PROVE WatchInv'
  BY <1>3, ChangeDomainKeeps
<1>4. CASE Shutdown
  BY <1>4, ShutdownKeeps
<1>5. CASE Host
  BY <1>5, HostKeeps
<1>6. ASSUME NEW g \in sleeping, Callback(g) PROVE WatchInv'
  BY <1>6, CallbackKeeps
<1>7. ASSUME NEW k \in Slot, ReadList(k) PROVE WatchInv'
  BY <1>7, ReadListKeeps
<1>8. ASSUME NEW k \in Slot, ReadDomain(k) PROVE WatchInv'
  BY <1>8, ReadDomainKeeps
<1>9. ASSUME NEW k \in Slot, ScanGoesOn(k) PROVE WatchInv'
  BY <1>9, LoadFeedKeeps, MatchPackagesKeeps, RecordDecisionKeeps, AppendDecisionKeeps
     DEF ScanGoesOn, ScanStep
<1>10. ASSUME NEW k \in Slot, ScanReturns(k) \/ ScanFails(k) PROVE WatchInv'
  <2>1. scan[k].phase # "free" /\ step[k] # "no"
    BY <1>10, CallInSlot DEF ScanReturns, ScanFails, AllRecorded, MayFail
  <2>2. unread' \in BOOLEAN
    BY <1>10 DEF ScanReturns, ScanFails, WatchInv, TypeOK, WatchTypeOK
  <2> QED
    BY <1>10, <2>1, <2>2, EndsKeeps DEF ScanReturns, ScanFails
<1>11. CASE UNCHANGED vars
  <2>1. UNCHANGED <<chainVars, watchVars>>
    BY <1>11 DEF vars
  <2>2. UNCHANGED <<stateVars, decisions, logs, scan, feed>> /\ feed \in Feed
    BY <2>1 DEF chainVars, WatchInv, TypeOK, ChainTypeOK
  <2>3. TimersInv'
    BY <2>1, <2>2 DEF watchVars, WatchInv, TypeOK, TimersInv, WatchTypeOK, OneScanAfterStop, StopSound
  <2> QED
    BY <2>2, <2>3, WaitingKeeps
<1> QED
  BY <1>1, <1>2, <1>3, <1>4, <1>5, <1>6, <1>7, <1>8, <1>9, <1>10, <1>11 DEF Next

(* The theorems are about every instance: any packages, feeds, policies,   *)
(* configurations, host and number of changes.                             *)

LEMMA WatchInvHolds == Spec => []WatchInv
  BY WatchInvInit, WatchInvStep, PTL DEF Spec

(* Every variable of watch mode and of the supply-chain domain has its     *)
(* type; no two scans of watch mode are under way, and none sleeps or      *)
(* appends that was not counted (watch.ts:88-130, supply-chain.ts:213-263).*)
THEOREM WatchTypeCorrect == Spec => []TypeOK
<1>1. WatchInv => TypeOK
  BY DEF WatchInv
<1> QED
  BY <1>1, WatchInvHolds, PTL

(* An audit log has the decisions of the scans that began under its own    *)
(* configuration, and of no other unless the host changed the scanner in   *)
(* mid-scan (supply-chain.ts:257-263, watch.ts:88-100).                    *)
THEOREM LogsHoldTheirScans == Spec => []LogHoldsItsScans
<1>1. WatchInv => LogHoldsItsScans
  BY DEF WatchInv
<1> QED
  BY <1>1, WatchInvHolds, PTL

(* After the shutdown at most one scan starts, whatever sleeps             *)
(* (watch.ts:118-130, debounce.ts:20-30).                                  *)
THEOREM OneScanStartsAfterStop == Spec => []OneScanAfterStop
<1>1. WatchInv => OneScanAfterStop
  BY DEF WatchInv
<1> QED
  BY <1>1, WatchInvHolds, PTL

(* A scan that returns has recorded a decision on each of its packages, in *)
(* order and last, in the buffer and in its audit log, unless the host     *)
(* meddled (supply-chain.ts:220-236).                                      *)
THEOREM ReturnedScansAreRecorded == Spec => []ReturnedMeansRecorded
<1>1. WatchInv => ReturnedMeansRecorded
  <2> SUFFICES ASSUME WatchInv, NEW k \in Slot, AllRecorded(k), ~scan[k].disturbed
               PROVE  /\ EndsWith(decisions, scan[k].packages, Len(scan[k].packages))
                      /\ scan[k].log # None =>
                            EndsWith(logs[scan[k].log], scan[k].packages, Len(scan[k].packages))
    BY DEF ReturnedMeansRecorded
  <2>1. scan[k].phase = "record" /\ scan[k].recorded = Len(scan[k].packages)
    BY DEF AllRecorded
  <2>2. Undisturbed(scan[k])
    BY <2>1, CallInSlot DEF CallSound
  <2> QED
    BY <2>1, <2>2 DEF Undisturbed, Buffered
<1> QED
  BY <1>1, WatchInvHolds, PTL

-----------------------------------------------------------------------------
(* What is allowed                                                         *)

\* The advisories of a call are of its packages, its provider and its feed.
CallJudged(c) ==
    c.phase \in {"record", "append"} => c.found = Scan(c.provider, c.packages, c.feed)

DecisionRight(d) ==
    (d.parallel => OneRule(d.package, d.feed.rules))
        => (d.allowed <=> ~Flagged(d.package, d.provider, d.feed))

JudgedInv ==
    /\ AllowedMeansCleanOneRule
    /\ \A k \in Slot : CallJudged(scan[k])

(* A scan has an advisory on one of its packages exactly when the package  *)
(* is flagged; in chunks, if no two rules name it.                         *)
LEMMA ScanFindsFlagged ==
    ASSUME NEW packages \in Snapshots, NEW by \in Providers, NEW says \in Feed,
           NEW n \in DOMAIN packages,
           Len(packages) >= Threshold => OneRule(packages[n], says.rules)
    PROVE  Advised(Scan(by, packages, says), packages[n].name, packages[n].version)
              <=> Flagged(packages[n], by, says)
<1>1. packages \in Seq(Packages) /\ NamesOnce(packages)
  <2>1. CASE packages = <<>>
    BY <2>1
  <2>2. CASE packages \in List \ {Garbled}
    BY <2>2, WatchAssumption
  <2> QED
    BY <2>1, <2>2 DEF Snapshots
<1>2. PICK rules \in Seq(Rules) : rules = says.rules
  BY WatchAssumption
<1>3. by.overrides \in Seq(Overrides)
  <2>1. CASE by.overrides = <<>>
    BY <2>1
  <2>2. CASE \E d \in Documents : by.overrides = d.overrides
    BY <2>2, WatchAssumption
  <2> QED
    BY <2>1, <2>2 DEF Providers
<1>4. PICK matches : matches = MatchThreatsParallel(packages, rules, says.allowlist)
  OBVIOUS
<1>5. PICK pkg : pkg = packages[n]
  OBVIOUS
<1> DEFINE level(rule) == Categorize(rule, by.policy)
           advisory(rule) == [level |-> level(rule), package |-> pkg.name,
                              version |-> pkg.version, categories |-> rule.categories]
           Names(m) == m.item.package = pkg.name /\ Head(m.matching).version = pkg.version
           Speaks(rule) == level(rule) # "none" /\ Kept(by.overrides, advisory(rule))
<1>6. (\E a \in Scan(by, packages, says) : a.package = pkg.name /\ a.version = pkg.version)
          <=> \E m \in matches : /\ Names(m) /\ level(m.item) # "none"
                                 /\ Kept(by.overrides, Advisory(m, level(m.item)))
  <2>1. matches = MatchThreatsParallel(packages, says.rules, says.allowlist)
    BY <1>2, <1>4
  <2>2. Advised(Scan(by, packages, says), pkg.name, pkg.version)
            <=> Reported(by, matches, pkg.name, pkg.version)
    BY <1>3, <2>1, ScanReports
  <2> QED
    BY <2>2 DEF Reported, Advised
<1>7. ASSUME NEW m, Names(m) PROVE Advisory(m, level(m.item)) = advisory(m.item)
  BY <1>7 DEF Advisory
<1>8. Flagged(pkg, by, says)
          <=> \E i \in DOMAIN rules : Hits(rules[i], pkg, says.allowlist) /\ Speaks(rules[i])
  <2>1. ASSUME NEW rule
        PROVE  Kept(by.overrides, advisory(rule)) <=>
                  LET applies == {j \in DOMAIN by.overrides : RuleMatches(by.overrides[j], advisory(rule))}
                  IN \A j \in applies : by.overrides[j].action = "ignore" => \E i2 \in applies : i2 < j
    BY DEF Kept, Matching
  <2> QED
    BY <1>2, <2>1 DEF Flagged
<1>9. /\ \A m \in matches : Found(m, rules, packages, says.allowlist)
      /\ \A i \in DOMAIN rules, j \in DOMAIN packages :
            Hits(rules[i], packages[j], says.allowlist) =>
                \E m \in matches : /\ m.item.package = rules[i].package
                                   /\ Len(packages) < Threshold => m.item = rules[i]
  BY <1>1, <1>2, <1>4, MatchesFound
<1>10. ASSUME NEW m \in matches, m.item.package = pkg.name
       PROVE  /\ \E i \in DOMAIN rules : m.item = rules[i] /\ Hits(rules[i], pkg, says.allowlist)
              /\ Names(m)
  <2>1. PICK i \in DOMAIN rules, j \in DOMAIN packages :
            /\ Hits(rules[i], packages[j], says.allowlist)
            /\ m.item = rules[i] /\ m.matching # <<>> /\ Head(m.matching) = packages[j]
    BY <1>9 DEF Found
  <2>2. packages[j].name = pkg.name
    BY <1>10, <2>1 DEF Hits
  <2>3. packages[j] = pkg
    BY <1>1, <1>5, <2>2 DEF NamesOnce
  <2> QED
    BY <1>10, <2>1, <2>3
<1>11. ASSUME NEW m \in matches, Names(m), level(m.item) # "none",
              Kept(by.overrides, Advisory(m, level(m.item)))
       PROVE  Flagged(pkg, by, says)
  <2>1. PICK i \in DOMAIN rules : m.item = rules[i] /\ Hits(rules[i], pkg, says.allowlist)
    BY <1>10, <1>11
  <2>2. Speaks(rules[i])
    BY <1>7, <1>11, <2>1
  <2> QED
    BY <1>8, <2>1, <2>2
<1>12. ASSUME NEW i \in DOMAIN rules, Hits(rules[i], pkg, says.allowlist), Speaks(rules[i])
       PROVE  \E m \in matches : /\ Names(m) /\ level(m.item) # "none"
                                 /\ Kept(by.overrides, Advisory(m, level(m.item)))
  <2>1. rules[i].package = pkg.name
    BY <1>12 DEF Hits
  <2>2. PICK m \in matches : /\ m.item.package = rules[i].package
                             /\ Len(packages) < Threshold => m.item = rules[i]
    BY <1>5, <1>9, <1>12
  <2>3. Names(m)
    BY <1>10, <2>1, <2>2
  <2>4. m.item = rules[i]
    <3>1. CASE Len(packages) < Threshold
      BY <2>2, <3>1
    <3>2. CASE ~(Len(packages) < Threshold)
      <4>1. OneRule(pkg, rules)
        <5>1. Len(packages) \in Nat /\ Threshold \in Nat
          BY <1>1, MatchAssumption
        <5> QED
          BY <1>2, <1>5, <3>2, <5>1
      <4>2. PICK k \in DOMAIN rules : m.item = rules[k]
        BY <1>10, <2>1, <2>2
      <4>3. k = i
        BY <2>1, <2>2, <4>1, <4>2 DEF OneRule
      <4> QED
        BY <4>2, <4>3
    <3> QED
      BY <3>1, <3>2
  <2> QED
    BY <1>7, <1>12, <2>3, <2>4
<1> QED
  BY <1>5, <1>6, <1>8, <1>11, <1>12 DEF Advised

\* One call is another, or all are as they were but for whom disturbed them.
LEMMA CallsJudged ==
    ASSUME JudgedInv, TypeOK, NEW k \in Slot, NEW d, scan' = [scan EXCEPT ![k] = d], CallJudged(d)
    PROVE  \A j \in Slot : CallJudged(scan'[j])
<1>1. scan = [j \in Slot |-> scan[j]]
  BY DEF TypeOK, ChainTypeOK
<1>2. ASSUME NEW j \in Slot PROVE CallJudged(scan'[j])
  <2>1. scan'[j] = IF j = k THEN d ELSE scan[j]
    BY <1>1
  <2> QED
    BY <2>1 DEF JudgedInv
<1> QED
  BY <1>2

LEMMA JudgedStays ==
    ASSUME JudgedInv, TypeOK,
           \/ UNCHANGED scan
           \/ scan' = Disturbed
           \/ \E k \in Slot : \E d \in {scan'[k]} : scan' = [scan EXCEPT ![k] = d] /\ CallJudged(d),
           decisions' = decisions \/ decisions' = <<>>
    PROVE  JudgedInv'
<1>1. AllowedMeansCleanOneRule'
  BY DEF JudgedInv, AllowedMeansCleanOneRule
<1>2. \A k \in Slot : CallJudged(scan'[k])
  <2>1. CASE scan' = Disturbed
    <3> SUFFICES ASSUME NEW k \in Slot PROVE CallJudged(scan'[k])
      OBVIOUS
    <3>1. PICK c : c = scan[k] /\ c \in Call(c.found) /\ CallJudged(c)
      BY DEF TypeOK, ChainTypeOK, JudgedInv
    <3>2. scan'[k] = [c EXCEPT !.disturbed = k \in Underway]
      BY <2>1, <3>1 DEF Disturbed
    <3>3. /\ scan'[k].phase = c.phase /\ scan'[k].found = c.found /\ scan'[k].feed = c.feed
          /\ scan'[k].packages = c.packages /\ scan'[k].provider = c.provider
      BY <3>1, <3>2 DEF Call
    <3> QED
      BY <3>1, <3>3 DEF CallJudged
  <2>2. CASE UNCHANGED scan
    BY <2>2 DEF JudgedInv
  <2> QED
    BY <2>1, <2>2, CallsJudged
<1> QED
  BY <1>1, <1>2 DEF JudgedInv, CallJudged

\* A call whose phase is another, or that has found what it should.
LEMMA CallGoesOnJudged ==
    ASSUME JudgedInv, TypeOK, NEW k \in Slot, NEW d, scan' = [scan EXCEPT ![k] = d], CallJudged(d),
           decisions' = decisions \/ decisions' = <<>>
    PROVE  JudgedInv'
<1>1. scan'[k] = d
  BY DEF TypeOK, ChainTypeOK
<1> QED
  BY <1>1, JudgedStays

\* The decision that RecordDecision makes is right.
LEMMA DecisionIsRight ==
    ASSUME JudgedInv, TypeOK, NEW k \in Slot, scan[k].phase = "record",
           scan[k].recorded < Len(scan[k].packages),
           NEW e, e = Decision(k, scan[k].packages[scan[k].recorded + 1])
    PROVE  DecisionRight(e)
<1>1. PICK c : c = scan[k]
  OBVIOUS
<1>2. PICK n : n = c.recorded + 1
  OBVIOUS
<1>3. c \in Call(c.found) /\ c.provider \in Providers /\ c.feed \in Feed
  BY <1>1 DEF TypeOK, ChainTypeOK
<1>4. c.packages \in Snapshots /\ c.recorded \in Nat
  BY <1>3 DEF Call
<1>5. c.packages \in Seq(Packages)
  BY <1>4, Constants
<1>6. n \in DOMAIN c.packages
  <2>1. c.recorded < Len(c.packages) /\ Len(c.packages) \in Nat
    BY <1>1, <1>5
  <2>2. n \in 1 .. Len(c.packages)
    BY <1>2, <1>4, <2>1
  <2> QED
    BY <1>5, <2>2
<1>7. c.found = Scan(c.provider, c.packages, c.feed)
  BY <1>1 DEF JudgedInv, CallJudged
<1>8. /\ e.package = c.packages[n] /\ e.provider = c.provider /\ e.feed = c.feed
      /\ e.parallel = (Len(c.packages) >= Threshold)
      /\ e.allowed = (\A a \in c.found : a.package = c.packages[n].name
                                            => a.version # c.packages[n].version)
  BY <1>1, <1>2 DEF Decision
<1>9. e.allowed <=> ~Advised(c.found, c.packages[n].name, c.packages[n].version)
  BY <1>8 DEF Advised
<1>10. ASSUME Len(c.packages) >= Threshold => OneRule(c.packages[n], c.feed.rules)
       PROVE  Advised(c.found, c.packages[n].name, c.packages[n].version)
                 <=> Flagged(c.packages[n], c.provider, c.feed)
  BY <1>3, <1>4, <1>6, <1>7, <1>10, ScanFindsFlagged
<1> QED
  BY <1>8, <1>9, <1>10 DEF DecisionRight

LEMMA RecordDecisionJudges ==
    ASSUME JudgedInv, TypeOK, NEW k \in Slot, RecordDecision(k) PROVE JudgedInv'
<1>1. PICK e : e = Decision(k, scan[k].packages[scan[k].recorded + 1])
  OBVIOUS
<1>2. decisions' = Append(decisions, e) /\ decisions \in Seq(Recorded)
  BY <1>1 DEF RecordDecision, TypeOK, ChainTypeOK
<1>3. DecisionRight(e)
  BY <1>1, DecisionIsRight DEF RecordDecision
<1>4. AllowedMeansCleanOneRule'
  <2>1. \A i \in DOMAIN decisions : DecisionRight(decisions[i])
    BY DEF JudgedInv, AllowedMeansCleanOneRule, DecisionRight
  <2>2. ASSUME NEW i \in DOMAIN decisions' PROVE DecisionRight(decisions'[i])
    <3>1. decisions'[i] = e \/ (i \in DOMAIN decisions /\ decisions'[i] = decisions[i])
      BY <1>2
    <3> QED
      BY <1>3, <2>1, <3>1
  <2> QED
    BY <2>2 DEF AllowedMeansCleanOneRule, DecisionRight
<1>5. \A j \in Slot : CallJudged(scan'[j])
  <2>1. PICK c : c = scan[k] /\ c \in Call(c.found) /\ CallJudged(c)
    BY DEF TypeOK, ChainTypeOK, JudgedInv
  <2>2. PICK d : /\ d.phase \in {"record", "append"} /\ d.found = c.found /\ d.feed = c.feed
                 /\ d.packages = c.packages /\ d.provider = c.provider
                 /\ scan' = [scan EXCEPT ![k] = d]
    <3>1. CASE sink = None
      <4>1. PICK d : d = [c EXCEPT !.recorded = c.recorded + 1]
        OBVIOUS
      <4>2. scan' = [scan EXCEPT ![k] = d]
        BY <2>1, <3>1, <4>1 DEF RecordDecision
      <4>3. c.phase = "record"
        BY <2>1 DEF RecordDecision
      <4> QED
        BY <2>1, <4>1, <4>2, <4>3 DEF Call
    <3>2. CASE sink # None
      <4>1. PICK d : d = [c EXCEPT !.phase = "append", !.writing = e, !.to = sink]
        OBVIOUS
      <4>2. scan' = [scan EXCEPT ![k] = d]
        BY <1>1, <2>1, <3>2, <4>1 DEF RecordDecision
      <4> QED
        BY <2>1, <4>1, <4>2 DEF Call
    <3> QED
      BY <3>1, <3>2
  <2>3. CallJudged(d)
    <3>1. c.phase = "record"
      BY <2>1 DEF RecordDecision
    <3> QED
      BY <2>1, <2>2, <3>1 DEF CallJudged
  <2> QED
    BY <2>2, <2>3, CallsJudged
<1> QED
  BY <1>4, <1>5 DEF JudgedInv, CallJudged

LEMMA ScanGoesOnJudged ==
    ASSUME JudgedInv, TypeOK, NEW k \in Slot, ScanStep(k) PROVE JudgedInv'
<1>0. PICK c : c = scan[k] /\ c \in Call(c.found) /\ CallJudged(c)
  BY DEF TypeOK, ChainTypeOK, JudgedInv
<1>1. CASE LoadFeed(k)
  <2>1. PICK d : d = [c EXCEPT !.phase = "match", !.feed = feed]
    OBVIOUS
  <2>2. scan' = [scan EXCEPT ![k] = d] /\ decisions' = decisions
    BY <1>0, <1>1, <2>1 DEF LoadFeed
  <2>3. CallJudged(d)
    BY <1>0, <2>1 DEF CallJudged, Call
  <2> QED
    BY <2>2, <2>3, CallGoesOnJudged
<1>2. CASE MatchPackages(k)
  <2>1. PICK d : d = [c EXCEPT !.phase = "record", !.found = Scan(c.provider, c.packages, c.feed)]
    OBVIOUS
  <2>2. scan' = [scan EXCEPT ![k] = d] /\ decisions' = decisions
    BY <1>0, <1>2, <2>1 DEF MatchPackages
  <2>3. CallJudged(d)
    BY <1>0, <2>1 DEF CallJudged, Call
  <2> QED
    BY <2>2, <2>3, CallGoesOnJudged
<1>3. CASE AppendDecision(k)
  <2>1. PICK d : d = [c EXCEPT !.phase = "record", !.recorded = c.recorded + 1,
                               !.writing = None, !.to = None]
    OBVIOUS
  <2>2. scan' = [scan EXCEPT ![k] = d] /\ decisions' = decisions /\ c.phase = "append"
    BY <1>0, <1>3, <2>1 DEF AppendDecision, GoesOn
  <2>3. CallJudged(d)
    BY <1>0, <2>1, <2>2 DEF CallJudged, Call
  <2> QED
    BY <2>2, <2>3, CallGoesOnJudged
<1> QED
  BY <1>1, <1>2, <1>3, RecordDecisionJudges DEF ScanStep

LEMMA CallEndsJudged ==
    ASSUME JudgedInv, TypeOK, NEW k \in Slot, Ends(k), decisions' = decisions PROVE JudgedInv'
<1>1. CallJudged(Free)
  BY DEF CallJudged, Free
<1> QED
  BY <1>1, CallGoesOnJudged DEF Ends

LEMMA ReadingJudged ==
    ASSUME JudgedInv, TypeOK, NEW k \in Slot, ReadList(k) \/ ReadDomain(k) PROVE JudgedInv'
<1>0. PICK c : c = scan[k] /\ c \in Call(c.found) /\ CallJudged(c)
  BY DEF TypeOK, ChainTypeOK, JudgedInv
<1>1. CASE ReadList(k) /\ list \in {<<>>, Garbled}
  BY <1>1, CallEndsJudged DEF ReadList
<1>2. CASE ReadList(k) /\ list \notin {<<>>, Garbled}
  <2>1. PICK d : d = [c EXCEPT !.packages = list]
    OBVIOUS
  <2>2. scan' = [scan EXCEPT ![k] = d] /\ decisions' = decisions
    BY <1>0, <1>2, <2>1 DEF ReadList
  <2>3. c.phase = "free"
    BY <1>0, <1>2 DEF ReadList, TypeOK, WatchTypeOK
  <2>4. CallJudged(d)
    BY <1>0, <2>1, <2>3 DEF CallJudged, Call
  <2> QED
    BY <2>2, <2>4, CallGoesOnJudged
<1>3. CASE ReadDomain(k)
  <2>1. PICK d : d = Called(scan[k].packages, provider', sink')
    OBVIOUS
  <2>2. scan' = [scan EXCEPT ![k] = d] /\ decisions' = decisions
    BY <1>3, <2>1 DEF ReadDomain
  <2>3. CallJudged(d)
    BY <2>1 DEF CallJudged, Called, Free
  <2> QED
    BY <2>2, <2>3, CallGoesOnJudged
<1> QED
  BY <1>1, <1>2, <1>3

LEMMA JudgedStep ==
    ASSUME JudgedInv, TypeOK, [Next]_vars PROVE JudgedInv'
<1>1. ASSUME NEW l \in List, ChangeList(l) PROVE JudgedInv'
  BY <1>1, JudgedStays DEF ChangeList, chainVars
<1>2. ASSUME NEW f \in Feed, ChangeFeed(f) PROVE JudgedInv'
  BY <1>2, JudgedStays DEF ChangeFeed, PublishFeed
<1>3. ASSUME NEW d \in Domain, ChangeDomain(d) PROVE JudgedInv'
  BY <1>3, JudgedStays DEF ChangeDomain, chainVars
<1>4. CASE Shutdown
  BY <1>4, JudgedStays DEF Shutdown, chainVars
<1>5. CASE Host
  <2>1. /\ UNCHANGED scan \/ scan' = Disturbed
        /\ decisions' = decisions \/ decisions' = <<>>
    BY <1>5 DEF Host, Activate, Deactivate, SetSeverityPolicy, ClearAuditBuffer
  <2> QED
    BY <2>1, JudgedStays
<1>6. ASSUME NEW g \in sleeping, Callback(g) PROVE JudgedInv'
  BY <1>6, JudgedStays DEF Callback, chainVars
<1>7. ASSUME NEW k \in Slot, ReadList(k) \/ ReadDomain(k) PROVE JudgedInv'
  BY <1>7, ReadingJudged
<1>8. ASSUME NEW k \in Slot, ScanGoesOn(k) PROVE JudgedInv'
  BY <1>8, ScanGoesOnJudged DEF ScanGoesOn
<1>9. ASSUME NEW k \in Slot, ScanReturns(k) \/ ScanFails(k) PROVE JudgedInv'
  BY <1>9, CallEndsJudged DEF ScanReturns, ScanFails
<1>10. CASE UNCHANGED vars
  BY <1>10, JudgedStays DEF vars, chainVars
<1> QED
  BY <1>1, <1>2, <1>3, <1>4, <1>5, <1>6, <1>7, <1>8, <1>9, <1>10 DEF Next

(* A package is recorded as allowed exactly when the feed that its scan    *)
(* loaded, under the policy and the overrides of the provider that the     *)
(* scan picked, holds nothing against it; in a list that is cut into       *)
(* chunks, when no two rules name the package.  So it is whatever the host *)
(* and the files do meanwhile, for any feed, policy, number of packages    *)
(* and number of workers (supply-chain.ts:213-235, parallel.ts:57-84,      *)
(* engine.ts:68-100).                                                      *)
THEOREM AllowedPackagesAreClean == Spec => []AllowedMeansCleanOneRule
<1>1. Init => JudgedInv
  <2> SUFFICES ASSUME Init PROVE JudgedInv
    OBVIOUS
  <2>1. decisions = <<>> /\ \A k \in Slot : scan[k] = Free
    BY DEF Init, ChainInit
  <2>2. CallJudged(Free)
    BY DEF CallJudged, Free
  <2> QED
    BY <2>1, <2>2 DEF JudgedInv, AllowedMeansCleanOneRule
<1>2. JudgedInv /\ TypeOK /\ [Next]_vars => JudgedInv'
  BY JudgedStep
<1>3. JudgedInv => AllowedMeansCleanOneRule
  BY DEF JudgedInv
<1> QED
  BY <1>1, <1>2, <1>3, WatchTypeCorrect, PTL DEF Spec
=============================================================================
