----------------------------- MODULE CsrfSecrets ------------------------------
(***************************************************************************)
(* The secrets of the scanner's own domain in the OS keychain and what     *)
(* signs with one of them: `vault` and `csrf rotate` (src/src/cli/vault-   *)
(* commands.ts, csrf.ts) replace and delete secrets in processes of their  *)
(* own, while a process with services (src/src/service/index.ts) issues    *)
(* and checks CSRF tokens with the secret its registry read               *)
(* (src/src/config/registry.ts, security.ts).                              *)
(*                                                                         *)
(* Bun.CSRF is what makes a token valid: its secret, its session where it  *)
(* is bound to one, and its age.  A secret is named after the command that *)
(* made it.  Requests change nothing: which of them pass is a predicate of *)
(* the state, and a token that any client has may be the one followed.     *)
(***************************************************************************)
EXTENDS Naturals, FiniteSets

CONSTANTS
    Service,       \* services a process makes, one after another or side by side
    Session,
    VaultCommand,  \* processes that run `vault` or `csrf`, one command each
    First,         \* the secret at first
    Empty, Pending, NoSession, NoBody,
    MaxLocks       \* bound on how often the keychain locks or unlocks

ASSUME CsrfAssumption ==
    /\ MaxLocks \in Nat
    /\ NoSession \notin Session
    /\ NoBody \notin Service \union VaultCommand \union {First, Empty, Pending}
    /\ {Empty, Pending} \intersect (VaultCommand \union {First}) = {}

VARIABLES
    locked,    \* the keychain does not answer
    locks,
    secret,    \* csrf-secret in the keychain, Empty if there is none
    vaultRun,   \* the commands
    promise,   \* promise[s]: the security context that service s asked for first
    cached,    \* whose promise the registry has in its cache
    services,   \* the services
    clientToken,     \* a token that a client has
    since      \* history: the secrets since the registry dropped its contexts

csrfVars == <<locked, locks, secret, vaultRun, promise, cached, services, clientToken,
              since>>

Secret == VaultCommand \union {First}
NoCsrfToken == [secret |-> Empty, session |-> NoSession]
NotMade == [at |-> "none", uses |-> NoBody, bound |-> FALSE, secret |-> Empty, since |-> {}]
Kind == {"rotate", "set", "get", "delete", "status", "doctor"}

CsrfTypeOK ==
    /\ locked \in BOOLEAN /\ locks \in 0 .. MaxLocks
    /\ secret \in Secret \union {Empty}
    /\ \A c \in VaultCommand :
          vaultRun[c] \in Kind \union {"none", "exit 0", "exit 1"}
    /\ promise \in [Service -> Secret \union {Empty, Pending, NoBody}]
    /\ \A s \in Service :
        /\ services[s].at \in {"none", "waiting", "serving", "stopped"}
        /\ services[s].bound \in BOOLEAN
        /\ services[s].secret \in Secret \union {Empty}
        /\ services[s].since \subseteq Secret \union {Empty}
        /\ services[s].at = "waiting" => promise[services[s].uses] # NoBody
    /\ clientToken \in
          [secret : Secret, session : Session \union {NoSession}] \union {NoCsrfToken}
    /\ since \subseteq Secret \union {Empty}

CsrfInit ==
    /\ locked = FALSE /\ locks = 0
    /\ secret = First
    /\ vaultRun = [c \in VaultCommand |-> "none"]
    /\ promise = [s \in Service |-> NoBody]
    /\ cached = NoBody
    /\ services = [s \in Service |-> NotMade]
    /\ clientToken = NoCsrfToken
    /\ since = {First}

-----------------------------------------------------------------------------
(* The keychain and the commands                                           *)

Lock ==
    /\ locks < MaxLocks
    /\ locks' = locks + 1
    /\ locked' = ~locked
    /\ UNCHANGED <<secret, vaultRun, promise, cached, services, clientToken, since>>

\* A command asks first whether the keychain answers.
BeginCommand(c, kind) ==
    /\ vaultRun[c] = "none"
    /\ vaultRun' = [vaultRun EXCEPT ![c] = IF locked THEN "exit 1" ELSE kind]
    /\ UNCHANGED <<locked, locks, secret, promise, cached, services, clientToken, since>>

Ends(c, how) == vaultRun' = [vaultRun EXCEPT ![c] = how]

HasSecret(new) ==
    /\ secret' = new
    /\ since' = since \union {new}
    /\ services' = [s \in Service |->
           IF services[s].at = "waiting" THEN [services[s] EXCEPT !.since = @ \union {new}]
           ELSE services[s]]

\* A domain of another name, or one with CSRF off, is refused.  Nothing tells
\* the services that run of the new secret.
RotateSecret(c, refused) ==
    /\ vaultRun[c] = "rotate"
    /\ IF locked \/ refused
         THEN Ends(c, "exit 1") /\ UNCHANGED <<secret, since, services>>
         ELSE Ends(c, "exit 0") /\ HasSecret(c)
    /\ UNCHANGED <<locked, locks, promise, cached, clientToken>>

\* A value that the keychain refuses is lost, and so is an empty answer.
SetSecret(c, refused) ==
    /\ vaultRun[c] = "set"
    /\ IF locked \/ refused
         THEN Ends(c, "exit 1") /\ UNCHANGED <<secret, since, services>>
         ELSE Ends(c, "exit 0") /\ HasSecret(c)
    /\ UNCHANGED <<locked, locks, promise, cached, clientToken>>

DeleteSecret(c) ==
    /\ vaultRun[c] = "delete"
    /\ Ends(c, IF locked THEN "exit 1" ELSE "exit 0")
    /\ IF locked THEN UNCHANGED <<secret, since, services>> ELSE HasSecret(Empty)
    /\ UNCHANGED <<locked, locks, promise, cached, clientToken>>

Reads(c, kind) ==
    /\ vaultRun[c] = kind
    /\ Ends(c, IF locked THEN "exit 1" ELSE "exit 0")
    /\ UNCHANGED <<locked, locks, secret, promise, cached, services, clientToken, since>>

\* A secret that is missing is read as an empty one.
GetSecret(c) == Reads(c, "get")

ReadStatus(c) == Reads(c, "status")

\* The scanner's secrets are all optional, so that none that it needs is missing.
VaultDoctor(c) == Reads(c, "doctor")

-----------------------------------------------------------------------------
(* The registry's contexts and the services                                *)

\* Faulty variant: the contexts outlive the configs.
ReloadKeepsContexts ==
    /\ since' = {secret}
    /\ UNCHANGED <<locked, locks, secret, vaultRun, promise, cached, services, clientToken>>

\* loadAll and reloadDomain.
Reload ==
    /\ cached' = NoBody
    /\ since' = {secret}
    /\ UNCHANGED <<locked, locks, secret, vaultRun, promise, services, clientToken>>

\* Service.initialize: the context that is cached, or a new one.
BeginService(s, bound) ==
    /\ services[s].at = "none"
    /\ LET from == IF cached = NoBody THEN s ELSE cached
       IN /\ cached' = from
          /\ promise' = IF cached = NoBody THEN [promise EXCEPT ![s] = Pending] ELSE promise
          /\ services' = [services EXCEPT ![s] = [NotMade EXCEPT !.at = "waiting", !.uses = from,
                                                               !.bound = bound, !.since = since]]
    /\ UNCHANGED <<locked, locks, secret, vaultRun, clientToken, since>>

\* A keychain that does not answer, or has no secret, gives an empty one.
ReadSecret(s) ==
    /\ promise[s] = Pending
    /\ promise' = [promise EXCEPT ![s] = IF locked THEN Empty ELSE secret]
    /\ UNCHANGED <<locked, locks, secret, vaultRun, cached, services, clientToken, since>>

ServiceServes(s) ==
    /\ services[s].at = "waiting" /\ promise[services[s].uses] # Pending
    /\ services' = [services EXCEPT ![s].at = "serving", ![s].secret = promise[services[s].uses]]
    /\ UNCHANGED <<locked, locks, secret, vaultRun, promise, cached, clientToken, since>>

CloseService(s) ==
    /\ services[s].at = "serving"
    /\ services' = [services EXCEPT ![s] = [NotMade EXCEPT !.at = "stopped"]]
    /\ UNCHANGED <<locked, locks, secret, vaultRun, promise, cached, clientToken, since>>

-----------------------------------------------------------------------------
(* CSRFGuard                                                               *)

Guarded(s) == services[s].at = "serving" /\ services[s].secret # Empty

\* The session that a token is signed and checked with.
TokenSession(s, session) == IF services[s].bound THEN session ELSE NoSession

\* A service that binds its tokens throws without a session.
IssueToken(s, session) ==
    /\ Guarded(s)
    /\ services[s].bound => session # NoSession
    /\ clientToken' = [secret |-> services[s].secret, session |-> TokenSession(s, session)]
    /\ UNCHANGED <<locked, locks, secret, vaultRun, promise, cached, services, since>>

\* verifyToken, of a token that is not too old.
Verifies(s, session) ==
    /\ services[s].bound => session # NoSession
    /\ clientToken # NoCsrfToken /\ clientToken.secret = services[s].secret
    /\ clientToken.session = TokenSession(s, session)

\* A request that changes something passes the guard with the token.  Safe
\* methods, and all requests where there is no guard, pass without one.
Passes(s, session) == Guarded(s) /\ Verifies(s, session)

CsrfNext ==
    \/ Lock
    \/ \E c \in VaultCommand, kind \in Kind : BeginCommand(c, kind)
    \/ \E c \in VaultCommand, refused \in BOOLEAN :
          RotateSecret(c, refused) \/ SetSecret(c, refused)
    \/ \E c \in VaultCommand :
          DeleteSecret(c) \/ GetSecret(c) \/ ReadStatus(c) \/ VaultDoctor(c)
    \/ Reload
    \/ \E s \in Service, bound \in BOOLEAN : BeginService(s, bound)
    \/ \E s \in Service : ReadSecret(s) \/ ServiceServes(s) \/ CloseService(s)
    \/ \E s \in Service, session \in Session \union {NoSession} : IssueToken(s, session)

CsrfSpec == CsrfInit /\ [][CsrfNext]_csrfVars

-----------------------------------------------------------------------------
(* A request that passes a guard does so with a token for its own session, *)
(* where tokens are bound to one, and of a secret that was in the keychain *)
(* since the registry last dropped its contexts before the service was     *)
(* made: after a rotation and a reload no new service takes a token of     *)
(* older ones (registry.ts:34-71, security.ts:120-134, csrf/guard.ts:46-   *)
(* 74, domains/csrf.ts:62-97).                                             *)
PassedMeansEntitled ==
    \A s \in Service, session \in Session \union {NoSession} :
        Passes(s, session) =>
            /\ clientToken.secret \in services[s].since
            /\ services[s].bound => clientToken.session = session
=============================================================================
