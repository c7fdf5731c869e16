------------------------------- MODULE TlsScan -------------------------------
(***************************************************************************)
(* The inspection of a TLS endpoint (src/src/cli/tls.ts and                *)
(* src/src/intel/tls), which is validated against the CAs of the operating *)
(* system.  Their list is cached for five minutes, and is read when the    *)
(* connection is opened and again when its profile is made.  In a shell    *)
(* one process inspects again and again.                                   *)
(*                                                                         *)
(* A server is whether its chain leads to a CA of the operating system, to *)
(* one that the runtime brings, and whether its certificate has expired.   *)
(***************************************************************************)
EXTENDS Naturals

CONSTANT MaxStoreChanges    \* bound on the changes of the operating system's store

ASSUME TlsAssumption == MaxStoreChanges \in Nat

Server == [system : BOOLEAN, runtime : BOOLEAN, expired : BOOLEAN]
CAs == {"empty", "anchors"}
Choice == {"on", "off", "unset"}

VARIABLES
    caStore,        \* the operating system's CAs
    storeChanges,
    cachedCAs,      \* the cached list, "unread" where it has none or an old one
    inspection,     \* the one in progress or the last
    recentCAs       \* history: the store's contents since the cached list was
                    \* read, or the inspection began if that was earlier

tlsVars == <<caStore, storeChanges, cachedCAs, inspection, recentCAs>>

NoInspection == [at |-> "off", server |-> [system |-> FALSE, runtime |-> FALSE, expired |-> FALSE],
                 left |-> FALSE, useSystemCA |-> FALSE, ca |-> "empty"]

TlsTypeOK ==
    /\ caStore \in CAs /\ cachedCAs \in CAs \union {"unread"}
    /\ storeChanges \in 0 .. MaxStoreChanges
    /\ inspection \in [at : {"off", "handshake", "exit 0", "exit 1"}, server : Server,
                       left : BOOLEAN, useSystemCA : BOOLEAN, ca : CAs]
    /\ recentCAs \subseteq CAs

TlsInit ==
    /\ caStore = "anchors" /\ storeChanges = 0 /\ cachedCAs = "unread"
    /\ inspection = NoInspection /\ recentCAs = {caStore}

-----------------------------------------------------------------------------
(* The CAs of the operating system                                         *)

GetSystemCACertificates == IF cachedCAs = "unread" THEN caStore ELSE cachedCAs
ReadCAs == cachedCAs' = GetSystemCACertificates

\* The flag wins, then the domain's config; else the store is asked.
ResolveUseSystemCA(flag, config) ==
    IF flag # "unset" THEN flag = "on"
    ELSE IF config # "unset" THEN config = "on" ELSE GetSystemCACertificates = "anchors"

StoreChanges ==
    /\ storeChanges < MaxStoreChanges /\ storeChanges' = storeChanges + 1
    /\ \E cas \in CAs \ {caStore} : caStore' = cas /\ recentCAs' = recentCAs \union {cas}
    /\ UNCHANGED <<cachedCAs, inspection>>

Ages ==
    /\ cachedCAs # "unread"
    /\ recentCAs' = IF inspection.at = "handshake" THEN recentCAs ELSE {caStore}
    /\ UNCHANGED <<caStore, storeChanges, inspection>>

\* Faulty variant: an old list is as good as a new one.
CacheAgesNever == Ages /\ UNCHANGED cachedCAs

\* Five minutes have passed since the list was read.
CacheAges == Ages /\ cachedCAs' = "unread"

-----------------------------------------------------------------------------
(* An inspection                                                           *)

RunTlsCli(ok) == inspection' = [inspection EXCEPT !.at = IF ok THEN "exit 0" ELSE "exit 1"]

\* No host, an unknown domain, or a port that is no number.
RefuseTls ==
    /\ inspection.at # "handshake"
    /\ inspection' = [NoInspection EXCEPT !.at = "exit 1"]
    /\ UNCHANGED <<caStore, storeChanges, cachedCAs, recentCAs>>

\* An inspection is left to itself if neither flag nor config says whether it
\* validates.
RunTlsScan(server, flag, config) ==
    /\ inspection.at # "handshake"
    /\ LET use == ResolveUseSystemCA(flag, config)
           left == flag = "unset" /\ config = "unset"
       IN /\ inspection' = [at |-> "handshake", server |-> server, left |-> left,
                            useSystemCA |-> use,
                            ca |-> IF use THEN GetSystemCACertificates ELSE "empty"]
          /\ IF use \/ left THEN ReadCAs ELSE UNCHANGED cachedCAs
          /\ recentCAs' = IF cachedCAs = "unread" THEN {caStore} ELSE recentCAs
    /\ UNCHANGED <<caStore, storeChanges>>

\* Without a list of ours the runtime verifies against its own.
Authorized(server, ca) ==
    ~server.expired /\ IF ca = "anchors" THEN server.system ELSE server.runtime

RejectUnauthorized == inspection.ca = "anchors"

\* Only a list that is empty again says more than the socket.
Trusted == GetSystemCACertificates = "anchors" /\ Authorized(inspection.server, inspection.ca)

Accepted ==
    /\ inspection.useSystemCA => Trusted
    /\ ~inspection.server.expired

SecureConnect ==
    /\ inspection.at = "handshake"
    /\ RejectUnauthorized => Authorized(inspection.server, inspection.ca)
    /\ RunTlsCli(Accepted)
    /\ IF inspection.useSystemCA THEN ReadCAs ELSE UNCHANGED cachedCAs
    /\ recentCAs' = IF inspection.useSystemCA /\ cachedCAs = "unread" THEN {caStore}
                     ELSE recentCAs
    /\ UNCHANGED <<caStore, storeChanges>>

\* An unauthorized server, another error, or the timeout.
HandshakeFails ==
    /\ inspection.at = "handshake"
    /\ RunTlsCli(FALSE)
    /\ UNCHANGED <<caStore, storeChanges, cachedCAs, recentCAs>>

TlsNext ==
    \/ StoreChanges \/ CacheAges \/ RefuseTls \/ SecureConnect \/ HandshakeFails
    \/ \E server \in Server, flag, config \in Choice : RunTlsScan(server, flag, config)

TlsSpec == TlsInit /\ [][TlsNext]_tlsVars

-----------------------------------------------------------------------------
(* The list is read when it is resolved whether to validate, when the      *)
(* connection is opened and when its profile is made, each time from a     *)
(* cache of five minutes, while the store changes.  Yet an inspection that *)
(* validates and exits with 0 had a CA of the operating system to go by:   *)
(* the store had one since the list was last read, or the inspection       *)
(* began.  If the store was never empty since, the server's chain leads to *)
(* the store, also where it was left to the inspection whether to          *)
(* validate; if it was, the runtime's CAs may have decided                 *)
(* (inspector.ts:68-163, system-ca.ts:61-110, tls.ts:79-137).              *)
PassedMeansTrusted ==
    [][ inspection.at = "handshake" /\ inspection'.at = "exit 0" =>
          /\ inspection.useSystemCA => "anchors" \in recentCAs
          /\ inspection.useSystemCA \/ inspection.left =>
                "empty" \in recentCAs \/ inspection.server.system ]_inspection
=============================================================================
