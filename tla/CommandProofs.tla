---------------------------- MODULE CommandProofs ----------------------------
(***************************************************************************)
(* Proofs about the commands that change or judge the operator's files:    *)
(* what `sp qr` shows and caches (QrCache), the interactive shell with its *)
(* scans and its prompt (OperatorShell), the checks of CSRF tokens and     *)
(* secrets (CsrfSecrets), `sp doctor` and its snapshots (Doctor), and the  *)
(* migration of vaults with a load beside it (VaultMigration).  The        *)
(* commands share nothing but the files and services that their own        *)
(* modules have, so each part has an inductive invariant of its own.       *)
(***************************************************************************)
EXTENDS QrCache, OperatorShell, CsrfSecrets, Doctor, VaultMigration, FiniteSetTheorems, TLAPS

-----------------------------------------------------------------------------
(* `sp qr`: what a command knows.                                          *)

\* A command has a domain from its beginning to its end.
Begun == {"begun", "token", "cached", "missing", "drawn"} \union Saving
QrState == [at : {"none"} \union Begun \union QrOver,
            domain : QrDomain \union {NotBegun.domain},
            token : Token \union {NoMaster}, shown : Token \union {NoMaster},
            index : SUBSET Image]

\* A token is no larger than the number of times one was replaced.
MasterTyped ==
    /\ master \in [QrDomain -> [Name -> Token \union {NoMaster}]]
    /\ rotations \in 0 .. MaxRotations
    /\ \A d \in QrDomain : master[d]["master"] = NoMaster \/ master[d]["master"] <= 1 + rotations

\* The file of an image is whole only with the token that it is named after.
ImageTyped ==
    /\ image \in [Image -> {NoImage, HalfImage} \union Token]
    /\ \A d \in QrDomain, t \in Token : image[<<d, t>>] \in {NoImage, HalfImage, t}

\* A command's token is one of those that its domain had since it began.
CommandKnows(c) ==
    /\ qr[c].at \in Begun => qr[c].domain \in QrDomain
    /\ qr[c].at = "begun" =>
          \A n \in Name : master[qr[c].domain][n] = NoMaster
                            \/ master[qr[c].domain][n] \in held[c]
    /\ qr[c].at \in Begun \ {"begun"} => qr[c].token \in Token \intersect held[c]
    /\ qr[c].at = "shown" => qr[c].shown \in held[c]

CommandTyped ==
    /\ qr \in [Command -> QrState]
    /\ held \in [Command -> SUBSET Token]
    /\ \A c \in Command : CommandKnows(c)

IndexTyped == index \in [torn : BOOLEAN, maps : SUBSET Image]

QrInv == MasterTyped /\ ImageTyped /\ IndexTyped /\ CommandTyped

LEMMA QrConstants ==
    /\ NoMaster \notin Token /\ Token \subseteq Nat
    /\ NoImage \notin Nat /\ HalfImage \notin Nat
    /\ MaxRotations \in Nat /\ MaxKills \in Nat
  BY QrAssumption DEF NoMaster, Token

LEMMA NotBegunType ==
    /\ NotBegun \in QrState /\ NotBegun.at = "none"
    /\ \A how \in QrOver : [NotBegun EXCEPT !.at = how] \in QrState
                             /\ [NotBegun EXCEPT !.at = how].at = how
    /\ \A t \in Token :
          /\ [NotBegun EXCEPT !.at = "shown", !.shown = t] \in QrState
          /\ [NotBegun EXCEPT !.at = "shown", !.shown = t].at = "shown"
          /\ [NotBegun EXCEPT !.at = "shown", !.shown = t].shown = t
    /\ \A d \in QrDomain :
          /\ [NotBegun EXCEPT !.at = "begun", !.domain = d] \in QrState
          /\ [NotBegun EXCEPT !.at = "begun", !.domain = d].at = "begun"
          /\ [NotBegun EXCEPT !.at = "begun", !.domain = d].domain = d
  BY DEF NotBegun, QrState, QrOver, Begun

\* A step of the command c that keeps its domain and its token, or ends it.
LEMMA CommandStep ==
  ASSUME QrInv, NEW c \in Command, NEW new \in QrState, qr' = [qr EXCEPT ![c] = new],
         UNCHANGED <<master, held>>,
         new.at \in Begun \ {"begun"} =>
            new.domain \in QrDomain /\ new.token \in Token \intersect held[c],
         new.at # "begun",
         new.at = "shown" => new.shown \in held[c]
  PROVE  CommandTyped'
  <1>1. qr' \in [Command -> QrState] /\ qr'[c] = new
    BY DEF QrInv, CommandTyped
  <1>2. CommandKnows(c)'
    BY <1>1 DEF CommandKnows
  <1>3. ASSUME NEW o \in Command, o # c PROVE CommandKnows(o)'
    <2>1. qr'[o] = qr[o] /\ CommandKnows(o)
      BY <1>3 DEF QrInv, CommandTyped
    <2> QED
      BY <2>1 DEF CommandKnows
  <1> QED
    BY <1>1, <1>2, <1>3 DEF QrInv, CommandTyped

LEMMA CommandGoes ==
  ASSUME QrInv, NEW c \in Command, qr[c].at \in Begun \ {"begun"},
         NEW at \in Begun \ {"begun"}, QrGoes(c, at), UNCHANGED <<master, held>>
  PROVE  CommandTyped'
  <1>1. /\ qr \in [Command -> QrState] /\ qr[c].domain \in QrDomain
        /\ qr[c].token \in Token \intersect held[c]
    BY DEF QrInv, CommandTyped, CommandKnows, Begun
  <1>2. PICK new : new = [qr[c] EXCEPT !.at = at]
    OBVIOUS
  <1>3. /\ new \in QrState /\ new.at = at
        /\ new.domain = qr[c].domain /\ new.token = qr[c].token
    BY <1>1, <1>2 DEF QrState
  <1>4. qr' = [qr EXCEPT ![c] = new]
    BY <1>1, <1>2 DEF QrGoes
  <1>5. at \notin {"begun", "shown"}
    BY DEF Begun, Saving
  <1> QED
    BY <1>1, <1>3, <1>4, <1>5, CommandStep

LEMMA CommandEnds ==
  ASSUME QrInv, NEW c \in Command, NEW how \in {"exit 1", "killed"}, QrEnds(c, how),
         UNCHANGED <<master, held>>
  PROVE  CommandTyped'
  <1>1. PICK new : new = [NotBegun EXCEPT !.at = how]
    OBVIOUS
  <1>2. new \in QrState /\ new.at = how /\ how \notin Begun \union {"shown"}
    BY <1>1, NotBegunType DEF QrOver, Begun, Saving
  <1>3. qr' = [qr EXCEPT ![c] = new]
    BY <1>1 DEF QrEnds
  <1> QED
    BY <1>2, <1>3, CommandStep DEF Begun

LEMMA CommandShows ==
  ASSUME QrInv, NEW c \in Command, NEW t \in Token, t \in held[c], QrShows(c, t),
         UNCHANGED <<master, held>>
  PROVE  CommandTyped'
  <1>1. PICK new : new = [NotBegun EXCEPT !.at = "shown", !.shown = t]
    OBVIOUS
  <1>2. new \in QrState /\ new.at = "shown" /\ new.shown = t /\ "shown" \notin Begun
    BY <1>1, NotBegunType DEF Begun, Saving
  <1>3. qr' = [qr EXCEPT ![c] = new]
    BY <1>1 DEF QrShows
  <1> QED
    BY <1>2, <1>3, CommandStep

LEMMA SetTokenInv ==
  ASSUME QrInv, NEW d \in QrDomain, NEW t \in Token \union {NoMaster}, SetToken(d, t),
         t = NoMaster \/ t <= 1 + rotations'
  PROVE  QrInv'
  <1>1. MasterTyped'
    <2>1. rotations' = rotations + 1 /\ rotations' \in 0 .. MaxRotations
      BY QrConstants DEF SetToken, QrInv, MasterTyped
    <2>2. /\ master' \in [QrDomain -> [Name -> Token \union {NoMaster}]]
          /\ \A e \in QrDomain : \/ master'[e]["master"] = master[e]["master"]
                                 \/ master'[e]["master"] = t
      BY DEF SetToken, QrInv, MasterTyped, Name
    <2>3. \A e \in QrDomain : master[e]["master"] \in Token \union {NoMaster}
      BY DEF QrInv, MasterTyped, Name
    <2>4. ASSUME NEW e \in QrDomain
          PROVE  master'[e]["master"] = NoMaster \/ master'[e]["master"] <= 1 + rotations'
      <3>1. master[e]["master"] \in Nat /\ rotations \in Nat
        <4>1. NoMaster \in Nat /\ Token \subseteq Nat
          BY QrConstants DEF NoMaster
        <4>2. rotations \in 0 .. MaxRotations
          BY DEF QrInv, MasterTyped
        <4>3. master[e]["master"] \in Nat
          BY <2>3, <4>1
        <4>4. rotations \in Nat
          BY <4>2, QrConstants
        <4> QED
          BY <4>3, <4>4
      <3>2. master[e]["master"] = NoMaster \/ master[e]["master"] <= 1 + rotations
        BY DEF QrInv, MasterTyped
      <3> QED
        BY <2>1, <2>2, <3>1, <3>2, QrConstants
    <2> QED
      BY <2>1, <2>2, <2>4 DEF MasterTyped
  <1>2. ImageTyped' /\ IndexTyped'
    BY DEF SetToken, QrInv, ImageTyped, IndexTyped
  <1>3. qr' = qr /\ held' \in [Command -> SUBSET Token]
    BY DEF SetToken, QrInv, CommandTyped
  <1>4. ASSUME NEW c \in Command PROVE CommandKnows(c)'
    <2>1. /\ CommandKnows(c) /\ qr \in [Command -> QrState]
          /\ held[c] \subseteq held'[c]
          /\ qr[c].at \in Begun /\ qr[c].domain = d => t = NoMaster \/ t \in held'[c]
      BY DEF SetToken, QrInv, CommandTyped, Begun, Saving, QrOver
    <2>2. \A e \in QrDomain, n \in Name :
             master'[e][n] = master[e][n] \/ (e = d /\ master'[e][n] = t)
      BY DEF SetToken, QrInv, MasterTyped
    <2>3. "begun" \in Begun
      BY DEF Begun
    <2> QED
      BY <1>3, <2>1, <2>2, <2>3 DEF CommandKnows
  <1> QED
    BY <1>1, <1>2, <1>3, <1>4 DEF QrInv, CommandTyped

LEMMA BeginQrInv ==
  ASSUME QrInv, NEW c \in Command, NEW d \in QrDomain, BeginQr(c, d) PROVE QrInv'
  <1>1. PICK new : new = [NotBegun EXCEPT !.at = "begun", !.domain = d]
    OBVIOUS
  <1>2. new \in QrState /\ new.at = "begun" /\ new.domain = d
    BY <1>1, NotBegunType
  <1>3. /\ qr' = [qr EXCEPT ![c] = new] /\ UNCHANGED <<master, image, index, rotations>>
        /\ held' = [held EXCEPT ![c] = {master[d][n] : n \in Name} \ {NoMaster}]
    BY <1>1 DEF BeginQr
  <1>4. held' \in [Command -> SUBSET Token] /\ qr' \in [Command -> QrState]
    BY <1>2, <1>3 DEF QrInv, CommandTyped, MasterTyped
  <1>5. CommandKnows(c)'
    <2>1. qr'[c] = new /\ held'[c] = {master[d][n] : n \in Name} \ {NoMaster}
      BY <1>3 DEF QrInv, CommandTyped
    <2> QED
      BY <1>2, <1>3, <2>1 DEF CommandKnows
  <1>6. ASSUME NEW o \in Command, o # c PROVE CommandKnows(o)'
    BY <1>3, <1>6 DEF CommandKnows, QrInv, CommandTyped
  <1> QED
    BY <1>3, <1>4, <1>5, <1>6 DEF QrInv, CommandTyped, MasterTyped, ImageTyped, IndexTyped

LEMMA FindTokenInv ==
  ASSUME QrInv, NEW c \in Command, NEW answered \in SUBSET Name, FindToken(c, answered)
  PROVE  QrInv'
  <1>1. UNCHANGED <<master, image, index, held, rotations>> /\ qr[c].at = "begun"
    BY DEF FindToken
  <1>2. \/ QrEnds(c, "exit 1")
        \/ \E name \in Name : /\ master[qr[c].domain][name] # NoMaster
                              /\ qr' = [qr EXCEPT ![c].at = "token",
                                                  ![c].token = master[qr[c].domain][name]]
    BY DEF FindToken, Name
  <1>3. CASE QrEnds(c, "exit 1")
    BY <1>1, <1>3, CommandEnds DEF QrInv, MasterTyped, ImageTyped, IndexTyped
  <1>4. CASE \E name \in Name : /\ master[qr[c].domain][name] # NoMaster
                                /\ qr' = [qr EXCEPT ![c].at = "token",
                                                    ![c].token = master[qr[c].domain][name]]
    <2>1. PICK name \in Name : /\ master[qr[c].domain][name] # NoMaster
                               /\ qr' = [qr EXCEPT ![c].at = "token",
                                                   ![c].token = master[qr[c].domain][name]]
      BY <1>4
    <2>2. PICK t : t = master[qr[c].domain][name]
      OBVIOUS
    <2>3. qr[c].domain \in QrDomain /\ qr \in [Command -> QrState] /\ t \in held[c]
      BY <1>1, <2>1, <2>2 DEF QrInv, CommandTyped, CommandKnows, Begun
    <2>4. t \in Token
      BY <2>1, <2>2, <2>3 DEF QrInv, MasterTyped
    <2>5. PICK new : new = [qr[c] EXCEPT !.at = "token", !.token = t]
      OBVIOUS
    <2>6. new \in QrState /\ new.at = "token" /\ new.domain = qr[c].domain /\ new.token = t
      BY <2>3, <2>4, <2>5 DEF QrState, Begun
    <2>7. qr' = [qr EXCEPT ![c] = new]
      BY <2>1, <2>2, <2>3, <2>5
    <2>8. CommandTyped'
      BY <1>1, <2>3, <2>4, <2>6, <2>7, CommandStep
    <2> QED
      BY <1>1, <2>8 DEF QrInv, MasterTyped, ImageTyped, IndexTyped
  <1> QED
    BY <1>2, <1>3, <1>4

LEMMA QrInitInv == QrInit => QrInv
  <1> SUFFICES ASSUME QrInit PROVE QrInv
    OBVIOUS
  <1>1. MasterTyped
    BY QrConstants DEF QrInit, MasterTyped, Token, Name
  <1>2. ImageTyped
    BY DEF QrInit, ImageTyped, Image
  <1>3. CommandTyped
    BY NotBegunType DEF QrInit, CommandTyped, CommandKnows, Begun, Saving
  <1>4. IndexTyped
    BY DEF QrInit, IndexTyped
  <1> QED
    BY <1>1, <1>2, <1>3, <1>4 DEF QrInv

\* The steps that replace no token and write no image.
QuietStep(c) ==
    \/ RefuseQr(c) \/ ShowDrawn(c) \/ GetCached(c) \/ ShowCached(c) \/ ReadIndex(c)
    \/ OpenIndex(c) \/ CloseIndex(c) \/ OpenMapping(c) \/ CloseMapping(c)
    \/ ShowSaved(c) \/ KillQr(c)

LEMMA QuietCommand ==
  ASSUME QrInv, NEW c \in Command, QuietStep(c)
  PROVE  CommandTyped' /\ UNCHANGED <<master, image, rotations>>
  <1>0. /\ UNCHANGED <<master, image, held, rotations>>
        /\ qr \in [Command -> QrState]
    BY DEF QuietStep, RefuseQr, ShowDrawn, GetCached, ShowCached, ReadIndex, OpenIndex,
       CloseIndex, OpenMapping, CloseMapping, ShowSaved, KillQr, QrInv, CommandTyped
  <1>1. qr[c].at \in Begun \ {"begun"} =>
          qr[c].domain \in QrDomain /\ qr[c].token \in Token /\ qr[c].token \in held[c]
    BY DEF QrInv, CommandTyped, CommandKnows, Begun
  <1>2. ASSUME NEW how \in {"exit 1", "killed"}, QrEnds(c, how) PROVE CommandTyped'
    BY <1>0, <1>2, CommandEnds
  <1>3. ASSUME NEW t, qr[c].at \in Begun \ {"begun"}, t = qr[c].token, QrShows(c, t)
        PROVE  CommandTyped'
    BY <1>0, <1>1, <1>3, CommandShows
  <1>4. ASSUME NEW at \in Begun \ {"begun"}, qr[c].at \in Begun \ {"begun"}, QrGoes(c, at)
        PROVE  CommandTyped'
    BY <1>0, <1>4, CommandGoes
  <1> SUFFICES CommandTyped'
    BY <1>0
  <1>5. CASE RefuseQr(c) \/ KillQr(c)
    BY <1>2, <1>5 DEF RefuseQr, KillQr
  <1>6. CASE ShowDrawn(c) \/ ShowSaved(c)
    BY <1>3, <1>6 DEF ShowDrawn, ShowSaved, Begun
  <1>7. CASE ShowCached(c)
    <2>1. qr[c].at \in Begun \ {"begun"}
      BY <1>7 DEF ShowCached, Begun
    <2>2. CASE image[Mine(c)] \in Token
      <3>1. image[Mine(c)] = qr[c].token
        BY <1>1, <2>1, <2>2, QrConstants DEF QrInv, ImageTyped, Mine, ImageOf
      <3> QED
        BY <1>3, <1>7, <2>1, <2>2, <3>1 DEF ShowCached
    <2>3. CASE image[Mine(c)] \notin Token
      BY <1>2, <1>7, <2>3 DEF ShowCached
    <2> QED
      BY <2>2, <2>3
  <1>8. CASE GetCached(c)
    <2>1. PICK at \in {"missing", "cached"} : QrGoes(c, at)
      BY <1>8 DEF GetCached
    <2>2. at \in Begun \ {"begun"} /\ qr[c].at \in Begun \ {"begun"}
      BY <1>8 DEF GetCached, Begun
    <2> QED
      BY <1>4, <2>1, <2>2
  <1>9. CASE OpenIndex(c) \/ CloseIndex(c) \/ OpenMapping(c) \/ CloseMapping(c)
    <2>1. PICK at \in {"index torn", "index", "mapping torn", "drawn"} : QrGoes(c, at)
      BY <1>9 DEF OpenIndex, CloseIndex, OpenMapping, CloseMapping
    <2>2. at \in Begun \ {"begun"} /\ qr[c].at \in Begun \ {"begun"}
      BY <1>9 DEF OpenIndex, CloseIndex, OpenMapping, CloseMapping, Begun, Saving
    <2> QED
      BY <1>4, <2>1, <2>2
  <1>10. CASE ReadIndex(c)
    <2>1. PICK maps : maps = IF index.torn THEN {} ELSE index.maps
      OBVIOUS
    <2>2. PICK new : new = [qr[c] EXCEPT !.at = "read", !.index = maps]
      OBVIOUS
    <2>3. qr[c].at \in Begun \ {"begun"} /\ maps \subseteq Image
      BY <1>10, <2>1 DEF ReadIndex, Begun, Saving, QrInv, IndexTyped
    <2>4. /\ new \in QrState /\ new.at = "read"
          /\ new.domain = qr[c].domain /\ new.token = qr[c].token
      BY <1>0, <2>2, <2>3 DEF QrState, Begun, Saving
    <2>5. qr' = [qr EXCEPT ![c] = new]
      BY <1>0, <1>10, <2>1, <2>2 DEF ReadIndex
    <2> QED
      BY <1>0, <1>1, <2>3, <2>4, <2>5, CommandStep
  <1> QED
    BY <1>5, <1>6, <1>7, <1>8, <1>9, <1>10 DEF QuietStep

LEMMA QuietInv ==
  ASSUME QrInv, NEW c \in Command, QuietStep(c) PROVE QrInv'
  <1>1. IndexTyped'
    <2>1. CASE OpenIndex(c)
      BY <2>1 DEF OpenIndex, IndexTyped
    <2>2. CASE CloseIndex(c)
      <3>1. qr[c].index \subseteq Image /\ Mine(c) \in Image
        BY <2>2 DEF CloseIndex, Begun, Saving, QrState, Mine, ImageOf, Image,
           QrInv, CommandTyped, CommandKnows
      <3> QED
        BY <2>2, <3>1 DEF CloseIndex, IndexTyped
    <2>3. CASE UNCHANGED index
      BY <2>3 DEF QrInv, IndexTyped
    <2> QED
      BY <2>1, <2>2, <2>3 DEF QuietStep, RefuseQr, ShowDrawn, GetCached, ShowCached, ReadIndex,
         OpenMapping, CloseMapping, ShowSaved, KillQr
  <1> QED
    BY <1>1, QuietCommand DEF QrInv, MasterTyped, ImageTyped

\* The image of a command is written by it, and by others with its token.
LEMMA SaveImageInv ==
  ASSUME QrInv, NEW c \in Command, OpenImage(c) \/ CloseImage(c) PROVE QrInv'
  <1>1. /\ qr[c].at \in Begun \ {"begun"}
        /\ UNCHANGED <<master, index, held, rotations>>
    BY DEF OpenImage, CloseImage, Begun, Saving
  <1>2. qr[c].domain \in QrDomain /\ qr[c].token \in Token /\ Mine(c) = <<qr[c].domain, qr[c].token>>
    BY <1>1 DEF QrInv, CommandTyped, CommandKnows, Begun, Mine, ImageOf
  <1>3. PICK at \in {"image torn", "image"} : QrGoes(c, at)
    BY DEF OpenImage, CloseImage
  <1>4. at \in Begun \ {"begun"}
    BY DEF Begun, Saving
  <1>5. CommandTyped'
    BY <1>1, <1>3, <1>4, CommandGoes
  <1>6. PICK t \in {HalfImage, qr[c].token} : image' = [image EXCEPT ![Mine(c)] = t]
    BY DEF OpenImage, CloseImage
  <1>7. ImageTyped'
    <2>1. image' \in [Image -> {NoImage, HalfImage} \union Token]
      BY <1>2, <1>6 DEF QrInv, ImageTyped
    <2>2. ASSUME NEW d \in QrDomain, NEW u \in Token
          PROVE  image'[<<d, u>>] \in {NoImage, HalfImage, u}
      <3>1. <<d, u>> \in Image /\ image[<<d, u>>] \in {NoImage, HalfImage, u}
        BY DEF Image, QrInv, ImageTyped
      <3>2. CASE <<d, u>> = Mine(c)
        <4>1. u = qr[c].token
          <5>1. PICK x, y : x = qr[c].domain /\ y = qr[c].token
            OBVIOUS
          <5>2. <<d, u>> = <<x, y>>
            BY <1>2, <3>2, <5>1
          <5> QED
            BY <5>1, <5>2
        <4>2. image'[<<d, u>>] = t
          BY <1>6, <3>1, <3>2 DEF QrInv, ImageTyped
        <4> QED
          BY <1>6, <4>1, <4>2
      <3>3. CASE <<d, u>> # Mine(c)
        BY <1>6, <3>1, <3>3 DEF QrInv, ImageTyped
      <3> QED
        BY <3>2, <3>3
    <2> QED
      BY <2>1, <2>2 DEF ImageTyped
  <1> QED
    BY <1>1, <1>5, <1>7 DEF QrInv, MasterTyped, IndexTyped

LEMMA QrStep == QrInv /\ [QrNext]_qrVars => QrInv'
  <1> SUFFICES ASSUME QrInv, [QrNext]_qrVars PROVE QrInv'
    OBVIOUS
  <1>1. CASE \E d \in QrDomain : RotateToken(d) \/ DeleteToken(d)
    <2>1. PICK d \in QrDomain : RotateToken(d) \/ DeleteToken(d)
      BY <1>1
    <2>2. CASE RotateToken(d)
      <3>1. PICK t : t = master[d]["master"] + 1
        OBVIOUS
      <3>2. /\ SetToken(d, t) /\ rotations' = rotations + 1 /\ rotations < MaxRotations
            /\ rotations \in Nat
            /\ master[d]["master"] \in Token /\ master[d]["master"] <= 1 + rotations
        BY <2>2, <3>1 DEF RotateToken, SetToken, QrInv, MasterTyped, Name
      <3>3. t \in Token /\ t <= 1 + rotations'
        BY <3>1, <3>2, QrConstants DEF Token
      <3> QED
        BY <3>2, <3>3, SetTokenInv
    <2>3. CASE DeleteToken(d)
      BY <2>3, SetTokenInv DEF DeleteToken
    <2> QED
      BY <2>1, <2>2, <2>3
  <1>2. CASE \E c \in Command, d \in QrDomain : BeginQr(c, d)
    BY <1>2, BeginQrInv
  <1>3. CASE \E c \in Command, answered \in SUBSET Name : FindToken(c, answered)
    BY <1>3, FindTokenInv
  <1>4. CASE \E c \in Command : OpenImage(c) \/ CloseImage(c)
    BY <1>4, SaveImageInv
  <1>5. CASE \E c \in Command : QuietStep(c)
    BY <1>5, QuietInv
  <1>6. CASE UNCHANGED qrVars
    BY <1>6 DEF qrVars, QrInv, MasterTyped, ImageTyped, IndexTyped, CommandTyped, CommandKnows
  <1> QED
    BY <1>1, <1>2, <1>3, <1>4, <1>5, <1>6 DEF QrNext, Save, QuietStep

-----------------------------------------------------------------------------
(* `sp qr`: what the index of the images holds.                            *)

\* The image i is in the index, or in what a command writes into it.
Indexed(i) ==
    \/ ~index.torn /\ i \in index.maps
    \/ \E c \in Command : qr[c].at = "index torn" /\ i \in qr[c].index \union {Mine(c)}

BeingSaved(i) == \E c \in Command : qr[c].at \in Saving /\ i = Mine(c)

\* As long as no two commands are at the index, the one that is knows it.
IndexInv ==
    /\ \A c, o \in Command : qr[c].at \in Indexing /\ qr[o].at \in Indexing => c = o
    /\ index.torn <=> \E c \in Command : qr[c].at = "index torn"
    /\ \A c \in Command : qr[c].at = "read" => qr[c].index = index.maps
    /\ \A c \in Command : qr[c].at \in {"index", "mapping torn"} => Indexed(Mine(c))
    /\ \A d \in QrDomain, t \in Token :
          /\ image[<<d, t>>] = t => Indexed(<<d, t>>) \/ BeingSaved(<<d, t>>)
          /\ mapping[d] = t => Indexed(<<d, t>>)

Undisturbed == ~overlapped /\ kills = 0

LEMMA IndexInit == QrInit => IndexInv
  <1> SUFFICES ASSUME QrInit PROVE IndexInv
    OBVIOUS
  <1>1. \A c \in Command : qr[c].at = "none"
    BY NotBegunType DEF QrInit
  <1>2. ~index.torn
    BY DEF QrInit
  <1>3. \A d \in QrDomain, t \in Token : image[<<d, t>>] # t /\ mapping[d] # t
    BY QrConstants DEF QrInit, Image
  <1> QED
    BY <1>1, <1>2, <1>3 DEF IndexInv, Indexing

LEMMA IndexHolds == (Undisturbed => IndexInv) => IndexIsWhole
  BY DEF Undisturbed, IndexInv, IndexIsWhole, Indexed, BeingSaved

\* A step of the command c that leaves the index alone.
LEMMA IndexKept ==
  ASSUME IndexInv, NEW c \in Command, NEW new, qr \in [Command -> QrState],
         qr' = [qr EXCEPT ![c] = new], index' = index,
         qr[c].at \notin Indexing, new.at \notin Indexing,
         new.at \in {"index", "mapping torn"} => Indexed(ImageOf(new.domain, new.token)),
         \A d \in QrDomain, t \in Token :
            /\ image'[<<d, t>>] = t => image[<<d, t>>] = t \/ BeingSaved(<<d, t>>)'
            /\ mapping'[d] = t => Indexed(<<d, t>>),
         qr[c].at \in Saving => \/ new.at \in Saving /\ ImageOf(new.domain, new.token) = Mine(c)
                                \/ Indexed(Mine(c))
  PROVE  IndexInv'
  <1>1. qr'[c] = new /\ \A o \in Command : o # c => qr'[o] = qr[o] /\ Mine(o)' = Mine(o)
    BY DEF Mine
  <1>2. Mine(c)' = ImageOf(new.domain, new.token)
    BY <1>1 DEF Mine, ImageOf
  <1>3. ASSUME NEW i PROVE Indexed(i)' <=> Indexed(i)
    BY <1>1 DEF Indexed, Indexing, Mine
  <1>4. ASSUME NEW i, BeingSaved(i) PROVE BeingSaved(i)' \/ Indexed(i)
    BY <1>1, <1>2, <1>4 DEF BeingSaved
  <1>5. ASSUME NEW o \in Command, qr'[o].at \in {"index", "mapping torn"}
        PROVE  Indexed(Mine(o))'
    <2>1. PICK i : i = Mine(o)'
      OBVIOUS
    <2>2. Indexed(i)
      BY <1>1, <1>2, <1>5, <2>1 DEF IndexInv
    <2>3. Indexed(i)'
      BY <1>3, <2>2
    <2> QED
      BY <2>1, <2>3 DEF Indexed
  <1>6. ASSUME NEW d \in QrDomain, NEW t \in Token
        PROVE  /\ image'[<<d, t>>] = t => Indexed(<<d, t>>)' \/ BeingSaved(<<d, t>>)'
               /\ mapping'[d] = t => Indexed(<<d, t>>)'
    BY <1>3, <1>4 DEF IndexInv
  <1>7. /\ \A o, p \in Command : qr'[o].at \in Indexing /\ qr'[p].at \in Indexing => o = p
        /\ index'.torn <=> \E o \in Command : qr'[o].at = "index torn"
        /\ \A o \in Command : qr'[o].at = "read" => qr'[o].index = index'.maps
    BY <1>1 DEF IndexInv, Indexing
  <1> QED
    BY <1>5, <1>6, <1>7 DEF IndexInv

\* A step of a command to the place `at`, none of them at the index.
LEMMA IndexGoes ==
  ASSUME IndexInv, QrInv, NEW c \in Command, NEW at, QrGoes(c, at), index' = index,
         qr[c].at \notin Indexing, at \notin Indexing,
         at \in {"index", "mapping torn"} => Indexed(Mine(c)),
         \A d \in QrDomain, t \in Token :
            /\ image'[<<d, t>>] = t => image[<<d, t>>] = t \/ BeingSaved(<<d, t>>)'
            /\ mapping'[d] = t => Indexed(<<d, t>>),
         qr[c].at \in Saving => at \in Saving \/ Indexed(Mine(c))
  PROVE  IndexInv'
  <1>1. qr \in [Command -> QrState]
    BY DEF QrInv, CommandTyped
  <1>2. PICK new : new = [qr[c] EXCEPT !.at = at]
    OBVIOUS
  <1>3. new.at = at /\ new.domain = qr[c].domain /\ new.token = qr[c].token
    BY <1>1, <1>2 DEF QrState
  <1>4. qr' = [qr EXCEPT ![c] = new]
    BY <1>1, <1>2 DEF QrGoes
  <1>5. ImageOf(new.domain, new.token) = Mine(c)
    BY <1>3 DEF Mine
  <1> QED
    BY <1>1, <1>3, <1>4, <1>5, IndexKept

\* A step that touches no file, of a command that is in no save.
LEMMA IndexAside ==
  ASSUME IndexInv, QrInv, NEW c \in Command, NEW new, qr' = [qr EXCEPT ![c] = new],
         UNCHANGED <<image, index, mapping>>,
         qr[c].at \notin Saving, new.at \notin Saving
  PROVE  IndexInv'
  <1>1. qr \in [Command -> QrState]
    BY DEF QrInv, CommandTyped
  <1>2. \A d \in QrDomain, t \in Token :
          /\ image'[<<d, t>>] = t => image[<<d, t>>] = t \/ BeingSaved(<<d, t>>)'
          /\ mapping'[d] = t => Indexed(<<d, t>>)
    BY DEF IndexInv
  <1>3. Indexing \subseteq Saving /\ {"index", "mapping torn"} \subseteq Saving
    BY DEF Indexing, Saving
  <1> QED
    BY <1>1, <1>2, <1>3, IndexKept

LEMMA ReadIndexKept ==
  ASSUME IndexInv, QrInv, NEW c \in Command, ReadIndex(c), ~overlapped'
  PROVE  IndexInv'
  <1>0. qr \in [Command -> QrState] /\ UNCHANGED <<image, index, mapping>>
    BY DEF QrInv, CommandTyped, ReadIndex
  <1>1. \A o \in Command : qr[o].at \notin Indexing
    BY DEF ReadIndex
  <1>2. ~index.torn
    BY <1>1 DEF IndexInv, Indexing
  <1>3. PICK new : new = [qr[c] EXCEPT !.at = "read", !.index = index.maps]
    OBVIOUS
  <1>4. /\ new.at = "read" /\ new.index = index.maps
        /\ new.domain = qr[c].domain /\ new.token = qr[c].token
    BY <1>0, <1>3 DEF QrState
  <1>5. qr' = [qr EXCEPT ![c] = new]
    BY <1>0, <1>2, <1>3 DEF ReadIndex
  <1>6. qr'[c] = new /\ \A o \in Command : o # c => qr'[o] = qr[o]
    BY <1>0, <1>5
  <1>7. \A o \in Command : Mine(o)' = Mine(o)
    BY <1>4, <1>6 DEF Mine, ImageOf
  <1>8. \A i : Indexed(i)' <=> ~index.torn /\ i \in index.maps
    BY <1>0, <1>1, <1>4, <1>6 DEF Indexed, Indexing
  <1>9. \A i : Indexed(i) => Indexed(i)'
    BY <1>1, <1>8 DEF Indexed, Indexing
  <1>10. \A i : BeingSaved(i) => BeingSaved(i)'
    BY <1>4, <1>6, <1>7 DEF BeingSaved, Saving
  <1>11. ASSUME NEW o \in Command, qr'[o].at \in {"index", "mapping torn"}
         PROVE  Indexed(Mine(o))'
    <2>1. PICK i : i = Mine(o)'
      OBVIOUS
    <2>2. Indexed(i)
      BY <1>4, <1>6, <1>7, <1>11, <2>1 DEF IndexInv
    <2>3. Indexed(i)'
      BY <1>9, <2>2
    <2> QED
      BY <2>1, <2>3 DEF Indexed
  <1>12. \A d \in QrDomain, t \in Token :
           /\ image'[<<d, t>>] = t => Indexed(<<d, t>>)' \/ BeingSaved(<<d, t>>)'
           /\ mapping'[d] = t => Indexed(<<d, t>>)'
    BY <1>0, <1>9, <1>10 DEF IndexInv
  <1>13. /\ \A o, p \in Command : qr'[o].at \in Indexing /\ qr'[p].at \in Indexing => o = p
         /\ index'.torn <=> \E o \in Command : qr'[o].at = "index torn"
         /\ \A o \in Command : qr'[o].at = "read" => qr'[o].index = index'.maps
    BY <1>0, <1>1, <1>2, <1>4, <1>6 DEF Indexing
  <1> QED
    BY <1>11, <1>12, <1>13 DEF IndexInv

\* What the command at the index puts into it are the images that were there,
\* and its own.
LEMMA WriteIndexKept ==
  ASSUME IndexInv, QrInv, NEW c \in Command, OpenIndex(c) \/ CloseIndex(c)
  PROVE  IndexInv'
  <1>0. /\ qr \in [Command -> QrState] /\ UNCHANGED <<image, mapping>>
        /\ index' \in [torn : BOOLEAN, maps : SUBSET Image]
        /\ qr[c].at \in Indexing
    <2>1. QrInv'
      BY QuietInv DEF QuietStep
    <2> QED
      BY <2>1 DEF QrInv, IndexTyped, CommandTyped, OpenIndex, CloseIndex, Indexing
  <1>1. \A o \in Command : o # c => qr[o].at \notin Indexing
    BY <1>0 DEF IndexInv
  <1>2. PICK at \in {"index torn", "index"} : QrGoes(c, at) /\ (at = "index torn" <=> OpenIndex(c))
    BY DEF OpenIndex, CloseIndex
  <1>3. PICK new : new = [qr[c] EXCEPT !.at = at]
    OBVIOUS
  <1>4. /\ new.at = at /\ new.index = qr[c].index
        /\ new.domain = qr[c].domain /\ new.token = qr[c].token
    BY <1>0, <1>3 DEF QrState
  <1>5. qr'[c] = new /\ \A o \in Command : o # c => qr'[o] = qr[o]
    BY <1>0, <1>2, <1>3 DEF QrGoes
  <1>6. \A o \in Command : Mine(o)' = Mine(o)
    BY <1>4, <1>5 DEF Mine, ImageOf
  <1>7. ASSUME NEW i
        PROVE  /\ Indexed(i) => i \in qr[c].index \union {Mine(c)}
               /\ Indexed(i)' <=> i \in qr[c].index \union {Mine(c)}
    <2>1. CASE OpenIndex(c)
      <3>1. qr[c].at = "read" /\ index'.torn /\ at = "index torn"
        BY <1>2, <2>1 DEF OpenIndex
      <3>2. qr[c].index = index.maps
        BY <3>1 DEF IndexInv
      <3>3. Indexed(i) => i \in index.maps
        BY <1>1, <3>1 DEF Indexed, Indexing
      <3>4. Indexed(i)' <=> i \in qr[c].index \union {Mine(c)}
        BY <1>1, <1>4, <1>5, <1>6, <3>1 DEF Indexed, Indexing
      <3> QED
        BY <3>2, <3>3, <3>4
    <2>2. CASE CloseIndex(c)
      <3>1. /\ qr[c].at = "index torn" /\ ~index'.torn /\ at = "index"
            /\ index'.maps = qr[c].index \union {Mine(c)}
        BY <1>2, <2>2 DEF CloseIndex, OpenIndex
      <3>2. index.torn
        BY <3>1 DEF IndexInv
      <3>3. Indexed(i) => i \in qr[c].index \union {Mine(c)}
        BY <1>1, <3>1, <3>2 DEF Indexed, Indexing
      <3>4. Indexed(i)' <=> i \in qr[c].index \union {Mine(c)}
        BY <1>1, <1>4, <1>5, <3>1 DEF Indexed, Indexing
      <3> QED
        BY <3>3, <3>4
    <2> QED
      BY <2>1, <2>2
  <1>8. \A i : BeingSaved(i) => BeingSaved(i)'
    BY <1>0, <1>4, <1>5, <1>6 DEF BeingSaved, Saving
  <1>9. ASSUME NEW o \in Command, qr'[o].at \in {"index", "mapping torn"}
        PROVE  Indexed(Mine(o))'
    <2>1. PICK i : i = Mine(o)'
      OBVIOUS
    <2>2. CASE o = c
      BY <1>6, <1>7, <2>1, <2>2 DEF Indexed
    <2>3. CASE o # c
      <3>1. Indexed(i)
        BY <1>5, <1>6, <1>9, <2>1, <2>3 DEF IndexInv
      <3>2. Indexed(i)'
        BY <1>7, <3>1
      <3> QED
        BY <2>1, <3>2 DEF Indexed
    <2> QED
      BY <2>2, <2>3
  <1>10. \A d \in QrDomain, t \in Token :
           /\ image'[<<d, t>>] = t => Indexed(<<d, t>>)' \/ BeingSaved(<<d, t>>)'
           /\ mapping'[d] = t => Indexed(<<d, t>>)'
    BY <1>0, <1>7, <1>8 DEF IndexInv
  <1>11. \A o, p \in Command : qr'[o].at \in Indexing /\ qr'[p].at \in Indexing => o = p
    BY <1>1, <1>5
  <1>12. \A o \in Command : qr'[o].at = "read" => qr'[o].index = index'.maps
    BY <1>1, <1>2, <1>4, <1>5 DEF Indexing
  <1>13. index'.torn <=> \E o \in Command : qr'[o].at = "index torn"
    <2>1. index'.torn <=> at = "index torn"
      <3>1. CASE OpenIndex(c)
        <4>1. at = "index torn" /\ index'.torn
          BY <1>2, <3>1 DEF OpenIndex
        <4> QED
          BY <4>1
      <3>2. CASE ~OpenIndex(c)
        <4>1. at # "index torn" /\ CloseIndex(c)
          BY <1>2, <3>2
        <4>2. ~index'.torn
          BY <4>1 DEF CloseIndex
        <4> QED
          BY <4>1, <4>2
      <3> QED
        BY <3>1, <3>2
    <2>2. \A o \in Command : qr'[o].at = "index torn" => o = c
      BY <1>1, <1>5 DEF Indexing
    <2> QED
      BY <1>4, <1>5, <2>1, <2>2
  <1> QED
    BY <1>9, <1>10, <1>11, <1>12, <1>13 DEF IndexInv

LEMMA IndexUnchanged ==
  ASSUME IndexInv, UNCHANGED <<image, index, mapping, qr>> PROVE IndexInv'
  <1>1. \A c : Mine(c)' = Mine(c)
    BY DEF Mine
  <1>2. \A i : Indexed(i)' <=> Indexed(i)
    BY <1>1 DEF Indexed
  <1>3. \A i : BeingSaved(i)' <=> BeingSaved(i)
    BY <1>1 DEF BeingSaved
  <1>4. ASSUME NEW c \in Command, qr'[c].at \in {"index", "mapping torn"}
        PROVE  Indexed(Mine(c))'
    <2>1. Indexed(Mine(c))
      BY <1>4 DEF IndexInv
    <2> QED
      BY <1>1, <2>1 DEF Indexed
  <1> QED
    BY <1>2, <1>3, <1>4 DEF IndexInv

\* What happened to the directory is not forgotten.
FilesTyped ==
    /\ kills \in Nat
    /\ mapping \in [QrDomain -> {NoImage, HalfImage} \union Token]

LEMMA FilesStep ==
  ASSUME FilesTyped, QrInv, [QrNext]_qrVars
  PROVE  FilesTyped' /\ (Undisturbed' => Undisturbed)
  <1>1. CASE UNCHANGED <<mapping, kills>> /\ (~overlapped' => ~overlapped)
    BY <1>1 DEF FilesTyped, Undisturbed
  <1>2. ASSUME NEW d \in QrDomain, RotateToken(d) \/ DeleteToken(d)
        PROVE  UNCHANGED <<mapping, kills, overlapped>>
    BY <1>2 DEF RotateToken, DeleteToken, SetToken
  <1>3. ASSUME NEW c \in Command,
               \/ \E d \in QrDomain : BeginQr(c, d)
               \/ \E answered \in SUBSET Name : FindToken(c, answered)
        PROVE  UNCHANGED <<mapping, kills, overlapped>>
    BY <1>3 DEF BeginQr, FindToken
  <1>4. ASSUME NEW c \in Command,
               \/ RefuseQr(c) \/ ShowDrawn(c) \/ GetCached(c) \/ ShowCached(c) \/ ShowSaved(c)
               \/ OpenImage(c) \/ CloseImage(c) \/ OpenIndex(c) \/ CloseIndex(c)
        PROVE  UNCHANGED <<mapping, kills, overlapped>>
    BY <1>4 DEF RefuseQr, ShowDrawn, GetCached, ShowCached, ShowSaved,
       OpenImage, CloseImage, OpenIndex, CloseIndex
  <1>5. ASSUME NEW c \in Command, ReadIndex(c)
        PROVE  UNCHANGED <<mapping, kills>> /\ (~overlapped' => ~overlapped)
    BY <1>5 DEF ReadIndex
  <1>6. ASSUME NEW c \in Command, OpenMapping(c) \/ CloseMapping(c)
        PROVE  FilesTyped' /\ (Undisturbed' => Undisturbed)
    <2>1. qr[c].token \in Token
      BY <1>6 DEF OpenMapping, CloseMapping, QrInv, CommandTyped, CommandKnows, Begun, Saving
    <2>2. PICK t \in {HalfImage} \union Token : mapping' = [mapping EXCEPT ![qr[c].domain] = t]
      BY <1>6, <2>1 DEF OpenMapping, CloseMapping
    <2>3. UNCHANGED <<kills, overlapped>>
      BY <1>6 DEF OpenMapping, CloseMapping
    <2> QED
      BY <2>2, <2>3 DEF FilesTyped, Undisturbed
  <1>7. ASSUME NEW c \in Command, KillQr(c)
        PROVE  FilesTyped' /\ (Undisturbed' => Undisturbed)
    BY <1>7 DEF KillQr, FilesTyped, Undisturbed
  <1>8. CASE UNCHANGED qrVars
    BY <1>1, <1>8 DEF qrVars
  <1> QED
    BY <1>1, <1>2, <1>3, <1>4, <1>5, <1>6, <1>7, <1>8 DEF QrNext, Save

LEMMA IndexStep ==
  ASSUME IndexInv, QrInv, FilesTyped, [QrNext]_qrVars, Undisturbed' PROVE IndexInv'
  <1>0. /\ qr \in [Command -> QrState]
        /\ \A c \in Command : qr[c].at \in Saving =>
              qr[c].domain \in QrDomain /\ qr[c].token \in Token
    BY DEF QrInv, CommandTyped, CommandKnows, Begun, Saving
  <1>1. CASE \E d \in QrDomain : RotateToken(d) \/ DeleteToken(d)
    <2>1. UNCHANGED <<image, index, mapping, qr>>
      BY <1>1 DEF RotateToken, DeleteToken, SetToken
    <2> QED
      BY <2>1, IndexUnchanged
  <1>2. CASE UNCHANGED qrVars
    BY <1>2, IndexUnchanged DEF qrVars
  <1>3. CASE \E c \in Command :
                \/ \E d \in QrDomain : BeginQr(c, d)
                \/ \E answered \in SUBSET Name : FindToken(c, answered)
                \/ RefuseQr(c) \/ ShowDrawn(c) \/ GetCached(c) \/ ShowCached(c) \/ ShowSaved(c)
    <2>1. PICK c \in Command :
                \/ \E d \in QrDomain : BeginQr(c, d)
                \/ \E answered \in SUBSET Name : FindToken(c, answered)
                \/ RefuseQr(c) \/ ShowDrawn(c) \/ GetCached(c) \/ ShowCached(c) \/ ShowSaved(c)
      BY <1>3
    <2>2. UNCHANGED <<image, index, mapping>> /\ qr[c].at \notin Saving
      BY <2>1 DEF BeginQr, FindToken, RefuseQr, ShowDrawn, GetCached, ShowCached, ShowSaved, Saving
    <2>3. PICK new : qr' = [qr EXCEPT ![c] = new] /\ new.at \notin Saving
      <3>1. CASE \E d \in QrDomain : BeginQr(c, d)
        <4>1. PICK d \in QrDomain : BeginQr(c, d)
          BY <3>1
        <4>2. PICK new : new = [NotBegun EXCEPT !.at = "begun", !.domain = d]
          OBVIOUS
        <4>3. new.at = "begun"
          BY <4>2 DEF NotBegun
        <4>4. qr' = [qr EXCEPT ![c] = new]
          BY <4>1, <4>2 DEF BeginQr
        <4> QED
          BY <4>3, <4>4 DEF Saving
      <3>2. CASE \E answered \in SUBSET Name : FindToken(c, answered)
        <4>1. CASE QrEnds(c, "exit 1")
          BY <4>1, NotBegunType DEF QrEnds, Saving, QrOver
        <4>2. CASE ~QrEnds(c, "exit 1")
          <5>1. PICK t : qr' = [qr EXCEPT ![c].at = "token", ![c].token = t]
            BY <3>2, <4>2 DEF FindToken
          <5>2. PICK new : new = [qr[c] EXCEPT !.at = "token", !.token = t]
            OBVIOUS
          <5>3. qr' = [qr EXCEPT ![c] = new] /\ new.at = "token"
            BY <1>0, <5>1, <5>2 DEF QrState
          <5> QED
            BY <5>3 DEF Saving
        <4> QED
          BY <4>1, <4>2
      <3>3. CASE GetCached(c)
        <4>1. PICK at \in {"missing", "cached"} : qr' = [qr EXCEPT ![c].at = at]
          BY <3>3 DEF GetCached, QrGoes
        <4>2. PICK new : new = [qr[c] EXCEPT !.at = at]
          OBVIOUS
        <4>3. qr' = [qr EXCEPT ![c] = new] /\ new.at = at
          BY <1>0, <4>1, <4>2 DEF QrState
        <4> QED
          BY <4>3 DEF Saving
      <3>4. ASSUME NEW how \in QrOver, QrEnds(c, how)
            PROVE  \E new : qr' = [qr EXCEPT ![c] = new] /\ new.at \notin Saving
        BY <3>4, NotBegunType DEF QrEnds, Saving, QrOver
      <3>5. ASSUME NEW t, QrShows(c, t)
            PROVE  \E new : qr' = [qr EXCEPT ![c] = new] /\ new.at \notin Saving
        <4>1. [NotBegun EXCEPT !.at = "shown", !.shown = t].at = "shown"
          BY DEF NotBegun
        <4> QED
          BY <3>5, <4>1 DEF QrShows, Saving
      <3>6. CASE RefuseQr(c) \/ ShowDrawn(c) \/ ShowCached(c) \/ ShowSaved(c)
        BY <3>4, <3>5, <3>6 DEF RefuseQr, ShowDrawn, ShowCached, ShowSaved, QrOver
      <3> QED
        BY <2>1, <3>1, <3>2, <3>3, <3>6
    <2> QED
      BY <2>2, <2>3, IndexAside
  <1>4. ASSUME NEW c \in Command, OpenImage(c) \/ CloseImage(c) PROVE IndexInv'
    <2>1. PICK at \in {"image torn", "image"} : QrGoes(c, at)
      BY <1>4 DEF OpenImage, CloseImage
    <2>2. /\ at \in Saving /\ at \notin Indexing /\ qr[c].at \notin Indexing
          /\ UNCHANGED <<index, mapping>>
      BY <1>4 DEF OpenImage, CloseImage, Saving, Indexing
    <2>3. qr'[c].at = at /\ Mine(c)' = Mine(c)
      BY <1>0, <2>1 DEF QrGoes, QrState, Mine, ImageOf
    <2>4. \A i \in Image : image'[i] # image[i] => i = Mine(c)
      BY <1>4 DEF OpenImage, CloseImage, QrInv, ImageTyped
    <2>5. \A d \in QrDomain, t \in Token :
            /\ image'[<<d, t>>] = t => image[<<d, t>>] = t \/ BeingSaved(<<d, t>>)'
            /\ mapping'[d] = t => Indexed(<<d, t>>)
      BY <2>2, <2>3, <2>4 DEF IndexInv, BeingSaved, Image
    <2> QED
      BY <2>1, <2>2, <2>5, IndexGoes
  <1>5. ASSUME NEW c \in Command, OpenMapping(c) \/ CloseMapping(c) PROVE IndexInv'
    <2>1. PICK at \in {"mapping torn", "drawn"} : QrGoes(c, at)
      BY <1>5 DEF OpenMapping, CloseMapping
    <2>2. /\ at \notin Indexing /\ qr[c].at \notin Indexing
          /\ UNCHANGED <<index, image>> /\ Indexed(Mine(c))
      BY <1>5 DEF OpenMapping, CloseMapping, Indexing, IndexInv
    <2>3. ASSUME NEW d \in QrDomain, NEW t \in Token, mapping'[d] = t
          PROVE  Indexed(<<d, t>>)
      <3>1. CASE mapping[d] = t
        BY <3>1 DEF IndexInv
      <3>2. CASE mapping[d] # t
        <4>1. mapping \in [QrDomain -> {NoImage, HalfImage} \union Token] /\ HalfImage # t
          BY QrConstants DEF FilesTyped
        <4>2. d = qr[c].domain /\ t = qr[c].token
          BY <1>5, <2>3, <3>2, <4>1 DEF OpenMapping, CloseMapping
        <4>3. Mine(c) = <<d, t>>
          BY <4>2 DEF Mine, ImageOf
        <4> QED
          BY <2>2, <4>3
      <3> QED
        BY <3>1, <3>2
    <2>4. \A d \in QrDomain, t \in Token :
            /\ image'[<<d, t>>] = t => image[<<d, t>>] = t \/ BeingSaved(<<d, t>>)'
            /\ mapping'[d] = t => Indexed(<<d, t>>)
      BY <2>2, <2>3
    <2> QED
      BY <2>1, <2>2, <2>4, IndexGoes
  <1>6. ASSUME NEW c \in Command, KillQr(c) PROVE FALSE
    BY <1>6 DEF KillQr, Undisturbed, FilesTyped
  <1>7. ASSUME NEW c \in Command, ReadIndex(c) PROVE IndexInv'
    BY <1>7, ReadIndexKept DEF Undisturbed
  <1>8. ASSUME NEW c \in Command, OpenIndex(c) \/ CloseIndex(c) PROVE IndexInv'
    BY <1>8, WriteIndexKept
  <1> QED
    BY <1>1, <1>2, <1>3, <1>4, <1>5, <1>6, <1>7, <1>8 DEF QrNext, Save

LEMMA QrIsInductive == QrSpec => [](QrInv /\ FilesTyped /\ (Undisturbed => IndexInv))
  <1>1. QrInit => QrInv /\ FilesTyped /\ (Undisturbed => IndexInv)
    <2>1. QrInit => FilesTyped
      BY DEF QrInit, FilesTyped
    <2> QED
      BY <2>1, QrInitInv, IndexInit
  <1>2. QrInv /\ FilesTyped /\ (Undisturbed => IndexInv) /\ [QrNext]_qrVars
          => (QrInv /\ FilesTyped /\ (Undisturbed => IndexInv))'
    BY QrStep, FilesStep, IndexStep
  <1> QED
    BY <1>1, <1>2, PTL DEF QrSpec

LEMMA QrHolds == QrInv /\ (Undisturbed => IndexInv) => QrCommandsHold
  <1>1. QrInv => QrIsCurrent
    BY DEF QrInv, CommandTyped, CommandKnows, QrIsCurrent
  <1> QED
    BY <1>1, IndexHolds DEF QrCommandsHold

(* Whatever processes ask for codes while tokens are replaced and others   *)
(* are killed in the middle of a save: a code holds a token that its       *)
(* domain had since the command began, and the index of the images loses   *)
(* none as long as no two saves meet at it (qr-cache.ts:71-165, 235-265,   *)
(* qr.ts:220-257).                                                         *)
THEOREM QrCodesAreCurrent == QrSpec => []QrCommandsHold
  BY QrHolds, QrIsInductive, PTL

-----------------------------------------------------------------------------
(* The operator shell: what it holds.                                      *)

Steps == {"off", "prompt", "input", "tool", "recording", "following",
          "one shot", "serving", "returned"} \union Over
ShellService == [domain : Domain, config : Config]

ViewTyped ==
    /\ domainFile \in [Domain -> Config \union {Absent, Broken}]
    /\ registry \in [Domain -> Config \union {Absent}]
    /\ active \in Domain \union {Nothing}
    /\ service \in ShellService \union {Nothing}
    /\ open \in Nat /\ handlers \in Nat
    /\ step \in Steps

\* The one service and the handlers that each state of the process has.
HoldsServices ==
    /\ step \in {"off", "one shot"} => service = Nothing /\ open = 0 /\ handlers = 0
    /\ step \in {"prompt", "input", "tool", "recording", "following"} =>
          open = IF service = Nothing THEN 0 ELSE 1
    /\ step \in {"prompt", "input", "tool", "recording"} => handlers = 0
    /\ step = "following" => handlers = 1
    /\ step \in {"tool", "recording"} => service # Nothing
    /\ step \in {"exit 0", "exit 1"} => open = 0 /\ handlers = 0

\* The service is the active domain's and writes to a file it has named.
ServesActive ==
    /\ service # Nothing => service.domain = active /\ service.config.log \in named
    /\ step = "input" /\ active # Nothing /\ registry[active] # Absent =>
          registry[active].log \in named

ViewInv == ViewTyped /\ HoldsServices /\ ServesActive

LEMMA ShellConstants ==
    /\ Absent \notin Config /\ Broken \notin Config /\ Nothing \notin Config
    /\ Nothing \notin Domain /\ Nothing \notin AuditFile /\ Nothing \notin ShellService
    /\ Absent # Broken
    /\ \A c \in Config : c.log \in AuditFile \union {Nothing}
  BY ShellAssumption DEF ShellService

LEMMA ViewInit == ShellInit => ViewInv
  <1>1. FirstConfig \in Config
    BY ShellAssumption DEF FirstConfig
  <1> QED
    BY <1>1 DEF ShellInit, ViewInv, ViewTyped, HoldsServices, ServesActive, Steps, Over

\* loadAll() yields what it read, or nothing.
LEMMA LoadAllType ==
  ASSUME ViewTyped, LoadAll
  PROVE  /\ registry' \in [Domain -> Config \union {Absent}]
         /\ \A d \in Domain : registry'[d] # Absent => ~LoadFails /\ registry'[d] = domainFile[d]
         /\ \A d \in Domain : Known(d) => domainFile[d] \in Config /\ registry'[d] = domainFile[d]
  <1>1. CASE LoadFails
    BY <1>1 DEF LoadAll, Known
  <1>2. CASE ~LoadFails
    <2>1. registry' = domainFile /\ \A d \in Domain : domainFile[d] # Broken
      BY <1>2 DEF LoadAll, LoadFails
    <2> QED
      BY <1>2, <2>1 DEF ViewTyped, Known
  <1> QED
    BY <1>1, <1>2

LEMMA ServiceNowType ==
  ASSUME ViewInv, step = "input", Serviceable
  PROVE  /\ ServiceNow \in ShellService /\ ServiceNow # Nothing
         /\ ServiceNow.domain = active /\ ServiceNow.config.log \in named
  <1>1. CASE service # Nothing
    BY <1>1, ShellConstants DEF ViewInv, ViewTyped, ServesActive, ServiceNow
  <1>2. CASE service = Nothing
    <2>1. active \in Domain /\ registry[active] \in Config
      BY <1>2 DEF ViewInv, ViewTyped, Serviceable
    <2> QED
      BY <1>2, <2>1, ShellConstants DEF ViewInv, ServesActive, Serviceable, ServiceNow, ShellService
  <1> QED
    BY <1>1, <1>2

\* A command with a service.
LEMMA ServedView ==
  ASSUME ViewInv, step = "input", Serviceable, GetService, UNCHANGED domainFile,
         step' \in {"prompt", "tool", "following"},
         handlers' = IF step' = "following" THEN handlers + 1 ELSE handlers
  PROVE  ViewInv'
  <1>1. /\ service' \in ShellService /\ service' # Nothing
        /\ service'.domain = active /\ service'.config.log \in named
        /\ UNCHANGED <<registry, active, named>>
    BY ServiceNowType DEF GetService
  <1>2. open' = 1 /\ handlers = 0
    BY DEF GetService, ViewInv, HoldsServices
  <1>3. handlers' = IF step' = "following" THEN 1 ELSE 0
    BY <1>2
  <1>4. ViewTyped'
    <2>1. open' \in Nat
      BY <1>2
    <2>2. handlers' \in Nat
      BY <1>3
    <2>3. step' \in Steps
      BY DEF Steps
    <2> QED
      BY <1>1, <2>1, <2>2, <2>3 DEF ViewInv, ViewTyped
  <1>6. HoldsServices'
    <2>1. CASE step' = "prompt"
      BY <1>1, <1>2, <1>3, <2>1 DEF HoldsServices
    <2>2. CASE step' = "tool"
      BY <1>1, <1>2, <1>3, <2>2 DEF HoldsServices
    <2>3. CASE step' = "following"
      BY <1>1, <1>2, <1>3, <2>3 DEF HoldsServices
    <2> QED
      BY <2>1, <2>2, <2>3
  <1>5. ServesActive'
    BY <1>1 DEF ServesActive
  <1> QED
    BY <1>4, <1>5, <1>6 DEF ViewInv

\* A reply, with or without a load.
LEMMA ReplyView ==
  ASSUME ViewInv, NEW reloads \in BOOLEAN, Replies(reloads) PROVE ViewInv'
  <1>1. registry' \in [Domain -> Config \union {Absent}]
    BY LoadAllType DEF Replies, ViewInv, ViewTyped
  <1>2. /\ UNCHANGED <<domainFile, active, service, open, named, handlers>>
        /\ step = "input" /\ step' = "prompt"
    BY DEF Replies, shellFiles, shellHost
  <1> QED
    BY <1>1, <1>2 DEF ViewInv, ViewTyped, HoldsServices, ServesActive, Steps

LEMMA OneLess == 1 - 1 = 0
  OBVIOUS

LEMMA SessionEnds ==
  ASSUME ViewInv, NEW status \in {"exit 0", "exit 1"}, EndSession(status),
         step \in {"prompt", "input"}, UNCHANGED domainFile,
         registry' \in [Domain -> Config \union {Absent}]
  PROVE  ViewInv'
  <1>1. open' = 0 /\ handlers' = 0 /\ service' = Nothing /\ step' = status
    <2>1. open = IF service = Nothing THEN 0 ELSE 1
      BY DEF ViewInv, HoldsServices
    <2>2. CASE service = Nothing
      BY <2>1, <2>2 DEF EndSession
    <2>3. CASE service # Nothing
      <3>1. open = 1 /\ open' = open - 1
        BY <2>1, <2>3 DEF EndSession
      <3> QED
        BY <3>1, OneLess DEF EndSession
    <2> QED
      BY <2>2, <2>3
  <1>2. UNCHANGED <<active, named>>
    BY DEF EndSession
  <1> QED
    BY <1>1, <1>2, ShellConstants DEF ViewInv, ViewTyped, HoldsServices, ServesActive, Steps, Over

\* A step that changes no more than where the process is.
LEMMA PlainView ==
  ASSUME ViewInv, UNCHANGED <<registry, active, service, open, named>>,
         domainFile' \in [Domain -> Config \union {Absent, Broken}],
         \/ step' = step /\ handlers' = handlers
         \/ step = "off" /\ step' \in {"prompt", "exit 0", "exit 1"} /\ handlers' = handlers
         \/ step = "one shot" /\ step' \in {"exit 0", "exit 1"} /\ handlers' = handlers
         \/ step = "tool" /\ step' = "recording" /\ handlers' = handlers
         \/ step = "recording" /\ step' = "prompt" /\ handlers' = handlers
         \/ step = "following" /\ step' = "prompt" /\ handlers' = handlers - 1
         \/ step' \in {"returned", "killed"} /\ handlers' \in Nat
  PROVE  ViewInv'
  <1>1. ViewTyped'
    <2>1. handlers' \in Nat
      <3>1. handlers \in Nat /\ (step = "following" => handlers = 1)
        BY DEF ViewInv, ViewTyped, HoldsServices
      <3>2. CASE handlers' = handlers \/ handlers' \in Nat
        BY <3>1, <3>2
      <3>3. CASE step = "following" /\ handlers' = handlers - 1
        <4>1. handlers' = 0
          BY <3>1, <3>3
        <4> QED
          BY <4>1
      <3> QED
        BY <3>2, <3>3
    <2>2. step' \in Steps
      BY DEF ViewInv, ViewTyped, Steps, Over
    <2> QED
      BY <2>1, <2>2 DEF ViewInv, ViewTyped
  <1>3. HoldsServices'
    <2>1. CASE step' = step /\ handlers' = handlers
      BY <2>1 DEF ViewInv, HoldsServices
    <2>2. CASE step = "off" /\ step' \in {"prompt", "exit 0", "exit 1"} /\ handlers' = handlers
      BY <2>2 DEF ViewInv, HoldsServices
    <2>3. CASE step = "one shot" /\ step' \in {"exit 0", "exit 1"} /\ handlers' = handlers
      BY <2>3 DEF ViewInv, HoldsServices
    <2>4. CASE step = "tool" /\ step' = "recording" /\ handlers' = handlers
      BY <2>4 DEF ViewInv, HoldsServices
    <2>5. CASE step = "recording" /\ step' = "prompt" /\ handlers' = handlers
      BY <2>5 DEF ViewInv, HoldsServices
    <2>6. CASE step = "following" /\ step' = "prompt" /\ handlers' = handlers - 1
      BY <2>6 DEF ViewInv, HoldsServices
    <2>7. CASE step' \in {"returned", "killed"}
      BY <2>7 DEF HoldsServices
    <2> QED
      BY <2>1, <2>2, <2>3, <2>4, <2>5, <2>6, <2>7
  <1>2. ServesActive'
    BY DEF ViewInv, ServesActive
  <1> QED
    BY <1>1, <1>2, <1>3 DEF ViewInv

LEMMA InvokeView ==
  ASSUME ViewInv,
         \/ \E d \in Domain \union {Nothing} : InvokeShell(d)
         \/ \E d \in Domain : InvokeStart(d)
         \/ \E d \in Domain, json, tty \in BOOLEAN : InvokeScan(d, json, tty)
  PROVE  ViewInv'
  <1>0. /\ step = "off" /\ service = Nothing /\ open = 0 /\ handlers = 0
        /\ UNCHANGED <<domainFile, service>>
        /\ ViewTyped
    BY DEF InvokeShell, InvokeStart, InvokeScan, ViewInv, HoldsServices, shellFiles, shellView
  <1>1. CASE \E d \in Domain \union {Nothing} : InvokeShell(d)
    <2>1. PICK d \in Domain \union {Nothing} : InvokeShell(d)
      BY <1>1
    <2>2. CASE d = Nothing
      BY <1>0, <2>1, <2>2, PlainView DEF InvokeShell, shellView, shellFiles, shellHost, ViewTyped
    <2>3. CASE d # Nothing
      <3>1. /\ d \in Domain /\ LoadAll /\ UNCHANGED <<open, handlers>>
            /\ IF Known(d)
                 THEN step' = "prompt" /\ active' = d
                 ELSE step' = "exit 1" /\ UNCHANGED active
        BY <2>1, <2>3 DEF InvokeShell, shellHost
      <3>2. registry' \in [Domain -> Config \union {Absent}]
        BY <1>0, <3>1, LoadAllType
      <3>3. ViewTyped'
        BY <1>0, <3>1, <3>2 DEF ViewTyped, Steps, Over
      <3>4. HoldsServices' /\ ServesActive'
        BY <1>0, <3>1 DEF HoldsServices, ServesActive
      <3> QED
        BY <3>3, <3>4 DEF ViewInv
    <2> QED
      BY <2>2, <2>3
  <1>2. CASE \E d \in Domain : InvokeStart(d)
    <2>1. PICK d \in Domain : InvokeStart(d)
      BY <1>2
    <2>2. /\ LoadAll /\ UNCHANGED active
          /\ \/ step' = "serving" /\ open' = 1 /\ handlers' = 1
             \/ step' = "exit 1" /\ open' = 0 /\ handlers' = 0
      <3>1. CASE Known(d)
        BY <1>0, <2>1, <3>1 DEF InvokeStart
      <3>2. CASE ~Known(d)
        BY <1>0, <2>1, <3>2 DEF InvokeStart
      <3> QED
        BY <3>1, <3>2
    <2>3. registry' \in [Domain -> Config \union {Absent}]
      BY <1>0, <2>2, LoadAllType
    <2>4. ViewTyped'
      <3>1. open' \in {0, 1} /\ handlers' \in {0, 1}
        BY <2>2
      <3>3. {0, 1} \subseteq Nat
        OBVIOUS
      <3>2. step' \in Steps
        BY <2>2 DEF Steps, Over
      <3> QED
        BY <1>0, <2>2, <2>3, <3>1, <3>2, <3>3 DEF ViewTyped
    <2>5. HoldsServices' /\ ServesActive'
      BY <1>0, <2>2 DEF HoldsServices, ServesActive
    <2> QED
      BY <2>4, <2>5 DEF ViewInv
  <1>3. CASE \E d \in Domain, json, tty \in BOOLEAN : InvokeScan(d, json, tty)
    <2>1. /\ LoadAll /\ UNCHANGED <<active, open, handlers>>
          /\ step' = "one shot" \/ step' = "exit 1"
      BY <1>3 DEF InvokeScan, shellHost
    <2>2. registry' \in [Domain -> Config \union {Absent}]
      BY <1>0, <2>1, LoadAllType
    <2>3. ViewTyped'
      BY <1>0, <2>1, <2>2 DEF ViewTyped, Steps, Over
    <2>4. HoldsServices' /\ ServesActive'
      BY <1>0, <2>1 DEF HoldsServices, ServesActive
    <2> QED
      BY <2>3, <2>4 DEF ViewInv
  <1> QED
    BY <1>1, <1>2, <1>3

LEMMA PromptView ==
  ASSUME ViewInv, Prompt PROVE ViewInv'
  <1>0. ViewTyped /\ step = "prompt" /\ handlers = 0 /\ UNCHANGED domainFile
    BY DEF Prompt, ViewInv, HoldsServices, shellFiles
  <1>1. CASE active = Nothing
    <2>1. step' = "input" /\ UNCHANGED <<registry, active, service, open, named, handlers>>
      BY <1>1 DEF Prompt, shellView, shellHost
    <2>2. HoldsServices' /\ ServesActive'
      BY <1>0, <1>1, <2>1 DEF ViewInv, HoldsServices, ServesActive
    <2> QED
      BY <1>0, <2>1, <2>2 DEF ViewInv, ViewTyped, Steps
  <1>2. CASE active # Nothing
    <2>1. LoadAll /\ active \in Domain
      BY <1>0, <1>2 DEF Prompt, ViewTyped
    <2>2. registry' \in [Domain -> Config \union {Absent}]
      BY <1>0, <2>1, LoadAllType
    <2>3. CASE LoadFails
      BY <1>0, <1>2, <2>2, <2>3, SessionEnds DEF Prompt
    <2>4. CASE ~LoadFails
      <3>1. /\ step' = "input" /\ UNCHANGED <<active, service, open, handlers>>
            /\ named' = named \union {IF domainFile[active] = Absent THEN Nothing
                                      ELSE domainFile[active].log}
        BY <1>2, <2>4 DEF Prompt, shellHost
      <3>2. registry'[active] # Absent => registry'[active] = domainFile[active]
        BY <1>0, <2>1, LoadAllType
      <3>3. HoldsServices' /\ ServesActive'
        BY <1>0, <3>1, <3>2 DEF ViewInv, HoldsServices, ServesActive
      <3> QED
        BY <1>0, <2>2, <3>1, <3>3 DEF ViewInv, ViewTyped, Steps
    <2> QED
      BY <2>3, <2>4
  <1> QED
    BY <1>1, <1>2

LEMMA SetDomainView ==
  ASSUME ViewInv, NEW d \in Domain, SetDomain(d) PROVE ViewInv'
  <1>0. /\ ViewTyped /\ LoadAll /\ UNCHANGED <<domainFile, handlers>>
        /\ step = "input" /\ step' = "prompt" /\ handlers = 0
        /\ open = IF service = Nothing THEN 0 ELSE 1
    BY DEF SetDomain, ViewInv, HoldsServices, shellFiles, shellHost
  <1>1. registry' \in [Domain -> Config \union {Absent}]
    BY <1>0, LoadAllType
  <1>2. CASE Known(d)
    <2>1. active' = d /\ service' = Nothing /\ open' = 0
      BY <1>0, <1>2 DEF SetDomain
    <2>2. HoldsServices' /\ ServesActive'
      BY <1>0, <2>1 DEF HoldsServices, ServesActive
    <2> QED
      BY <1>0, <1>1, <2>1, <2>2 DEF ViewInv, ViewTyped, Steps
  <1>3. CASE ~Known(d)
    <2>1. UNCHANGED <<active, service, open, named>>
      BY <1>3 DEF SetDomain
    <2>2. HoldsServices' /\ ServesActive'
      BY <1>0, <2>1 DEF ViewInv, HoldsServices, ServesActive
    <2> QED
      BY <1>0, <1>1, <2>1, <2>2 DEF ViewInv, ViewTyped, Steps
  <1> QED
    BY <1>2, <1>3

LEMMA ViewStep == ViewInv /\ [ShellNext]_shellVars => ViewInv'
  <1> SUFFICES ASSUME ViewInv, [ShellNext]_shellVars PROVE ViewInv'
    OBVIOUS
  <1>0. ViewTyped
    BY DEF ViewInv
  <1>1. CASE \/ \E d \in Domain \union {Nothing} : InvokeShell(d)
             \/ \E d \in Domain : InvokeStart(d)
             \/ \E d \in Domain, json, tty \in BOOLEAN : InvokeScan(d, json, tty)
    BY <1>1, InvokeView
  <1>2. CASE Prompt
    BY <1>2, PromptView
  <1>3. CASE \E d \in Domain : SetDomain(d)
    BY <1>3, SetDomainView
  <1>4. CASE Leave
    BY <1>0, <1>4, SessionEnds DEF Leave, ViewTyped, shellFiles
  <1>5. CASE ListDomains \/ ShowDomain \/ WriteBadge \/ HandleSecrets \/ RunDomainQr \/ RunTls
             \/ PrintHelp \/ ShowFeatures \/ RunBuild
    BY <1>5, ReplyView DEF ListDomains, ShowDomain, WriteBadge, HandleSecrets, RunDomainQr,
       RunTls, PrintHelp, ShowFeatures, RunBuild
  <1>6. CASE \/ UseService \/ StartScan \/ RefuseScan \/ FollowLog
             \/ \E i \in 1 .. MaxScans : AuditThumbnail(i)
    <2>1. CASE UseService \/ RefuseScan
      BY <2>1, ServedView DEF UseService, RefuseScan, shellFiles, shellHost
    <2>2. CASE StartScan
      BY <2>2, ServedView DEF StartScan, shellFiles
    <2>3. CASE FollowLog
      BY <2>3, ServedView DEF FollowLog, shellFiles
    <2>4. CASE \E i \in 1 .. MaxScans : AuditThumbnail(i)
      BY <2>4, ServedView DEF AuditThumbnail, shellFiles, shellHost
    <2> QED
      BY <1>6, <2>1, <2>2, <2>3, <2>4
  <1>7. CASE \E d \in Domain, content \in Config \union {Absent, Broken} : EditDomainFile(d, content)
    BY <1>0, <1>7, PlainView DEF EditDomainFile, ViewTyped, shellView, shellHost
  <1>8. CASE \/ \E code \in {"ok", "failed"} : OneShotEnds(code) \/ InvokeOther(code)
             \/ InvokeUnknown \/ StopFollowing \/ InterruptServer \/ Killed
             \/ (\E how \in {"ok", "failed"} : ToolEnds(how))
             \/ (\E stored \in BOOLEAN : RecordScan(stored))
    <2>1. UNCHANGED <<registry, active, service, open, named, domainFile>>
      BY <1>8 DEF OneShotEnds, InvokeOther, InvokeUnknown, StopFollowing, InterruptServer,
         Killed, ToolEnds, RecordScan, shellView, shellFiles
    <2>2. \/ step = "off" /\ step' \in {"exit 0", "exit 1"} /\ handlers' = handlers
          \/ step = "one shot" /\ step' \in {"exit 0", "exit 1"} /\ handlers' = handlers
          \/ step = "tool" /\ step' = "recording" /\ handlers' = handlers
          \/ step = "recording" /\ step' = "prompt" /\ handlers' = handlers
          \/ step = "following" /\ step' = "prompt" /\ handlers' = handlers - 1
          \/ step' \in {"returned", "killed"} /\ handlers' = 0
          \/ step' = "killed" /\ handlers' = handlers
      BY <1>8 DEF OneShotEnds, InvokeOther, InvokeUnknown, StopFollowing, InterruptServer,
         Killed, ToolEnds, RecordScan, shellHost
    <2>3. handlers \in Nat /\ domainFile' \in [Domain -> Config \union {Absent, Broken}]
      BY <1>0, <2>1 DEF ViewTyped
    <2>4. \/ step = "off" /\ step' \in {"prompt", "exit 0", "exit 1"} /\ handlers' = handlers
          \/ step = "one shot" /\ step' \in {"exit 0", "exit 1"} /\ handlers' = handlers
          \/ step = "tool" /\ step' = "recording" /\ handlers' = handlers
          \/ step = "recording" /\ step' = "prompt" /\ handlers' = handlers
          \/ step = "following" /\ step' = "prompt" /\ handlers' = handlers - 1
          \/ step' \in {"returned", "killed"} /\ handlers' \in Nat
      <3>1. 0 \in Nat
        OBVIOUS
      <3> QED
        BY <2>2, <2>3, <3>1, Zenon
    <2> QED
      BY <2>1, <2>3, <2>4, PlainView
  <1>9. CASE UNCHANGED shellVars
    BY <1>0, <1>9, PlainView DEF shellVars, shellFiles, shellView, shellHost, ViewTyped
  <1> QED
    BY <1>1, <1>2, <1>3, <1>4, <1>5, <1>6, <1>7, <1>8, <1>9 DEF ShellNext

LEMMA PromptHolds == ViewInv => PromptHoldsNothing
  BY DEF ViewInv, HoldsServices, PromptHoldsNothing, AtPrompt

(* Back at the prompt the shell holds its one service and no interrupt     *)
(* handler, however tails, scans, changes of the domain and loads that     *)
(* fail followed each other; and a session that ended has closed its       *)
(* service (shell.ts:107-112, 228, 295-305, 643-672).                      *)
THEOREM PromptIsClean == ShellSpec => []PromptHoldsNothing
  BY PromptHolds, ViewInit, ViewStep, PTL DEF ShellSpec

-----------------------------------------------------------------------------
(* The operator shell: where its scans are recorded.                       *)

Scan == [domain : Domain, log : AuditFile \union {Nothing},
         named : SUBSET (AuditFile \union {Nothing}),
         ended : {"no", "ok", "failed"}, lost : BOOLEAN]
LogEntry == [scan : Nat, domain : Domain, visual : BOOLEAN]
Trails == [AuditFile -> Seq(LogEntry)]

\* The entry n of file l of the trails t is that of the scan i.
IsEntryOf(t, l, n, i) == n \in DOMAIN t[l] /\ t[l][n].scan = i /\ ~t[l][n].visual

Unrecorded(t, i) == \A l \in AuditFile : \A n \in DOMAIN t[l] : ~IsEntryOf(t, l, n, i)
RecordedOnce(t, s, i) ==
    /\ s.log \in AuditFile
    /\ \E n \in DOMAIN t[s.log] :
          /\ IsEntryOf(t, s.log, n, i)
          /\ t[s.log][n].domain = s.domain
          /\ \A l \in AuditFile : \A m \in DOMAIN t[l] :
                IsEntryOf(t, l, m, i) => l = s.log /\ m = n
Settled(t, s, i) == IF s.log = Nothing \/ s.lost THEN Unrecorded(t, i) ELSE RecordedOnce(t, s, i)

\* The scan i has not been recorded yet, or never will be.
Unsettled(i) == i = Len(scans) /\ step \in {"tool", "recording", "killed"}

LogTyped ==
    /\ named \subseteq AuditFile \union {Nothing}
    /\ scans \in Seq(Scan)
    /\ trail \in Trails

KnownScans == \A l \in AuditFile : \A n \in DOMAIN trail[l] : trail[l][n].scan \in 1 .. Len(scans)

PendingScan ==
    step \in {"tool", "recording"} =>
        /\ Len(scans) \in 1 .. Len(scans)
        /\ LastScan.log = service.config.log
        /\ LastScan.domain = service.domain
        /\ Unrecorded(trail, Len(scans))

SettledScans ==
    \A i \in 1 .. Len(scans) :
        /\ scans[i].log \in scans[i].named
        /\ ~Unsettled(i) => Settled(trail, scans[i], i)

LogInv == LogTyped /\ KnownScans /\ PendingScan /\ SettledScans

LEMMA LogInit == ShellInit => LogInv
  BY DEF ShellInit, LogInv, LogTyped, KnownScans, PendingScan, SettledScans, Trails

\* An entry is added at the end of one file.
Added(t, f, e) == [t EXCEPT ![f] = Append(@, e)]

LEMMA AppendedTrail ==
  ASSUME NEW t \in Trails, NEW f \in AuditFile, NEW e \in LogEntry
  PROVE LET u == Added(t, f, e) IN
         /\ u \in Trails
         /\ Len(t[f]) + 1 \in DOMAIN u[f] /\ Len(t[f]) + 1 \notin DOMAIN t[f]
         /\ u[f][Len(t[f]) + 1] = e
         /\ \A l \in AuditFile : DOMAIN t[l] \subseteq DOMAIN u[l]
         /\ \A l \in AuditFile : \A n \in DOMAIN t[l] : u[l][n] = t[l][n]
         /\ \A l \in AuditFile : \A n \in DOMAIN u[l] :
               n \in DOMAIN t[l] \/ (l = f /\ n = Len(t[f]) + 1)
  <1> DEFINE u == Added(t, f, e)
  <1>1. t[f] \in Seq(LogEntry) /\ u[f] = Append(t[f], e)
    BY DEF Trails, Added
  <1>2. /\ u[f] \in Seq(LogEntry)
        /\ DOMAIN t[f] = 1 .. Len(t[f]) /\ DOMAIN u[f] = 1 .. Len(t[f]) + 1
        /\ Len(t[f]) \in Nat
        /\ u[f][Len(t[f]) + 1] = e
        /\ \A n \in 1 .. Len(t[f]) : u[f][n] = t[f][n]
    BY <1>1
  <1>3. \A l \in AuditFile : l # f => u[l] = t[l]
    BY DEF Trails, Added
  <1>4. u \in Trails
    BY <1>2 DEF Trails, Added
  <1>5. /\ Len(t[f]) + 1 \in DOMAIN u[f] /\ Len(t[f]) + 1 \notin DOMAIN t[f]
        /\ DOMAIN t[f] \subseteq DOMAIN u[f]
        /\ \A n \in DOMAIN u[f] : n \in DOMAIN t[f] \/ n = Len(t[f]) + 1
    BY <1>2
  <1> QED
    BY <1>2, <1>3, <1>4, <1>5

LEMMA AddedKnows ==
  ASSUME NEW t \in Trails, NEW f \in AuditFile, NEW e \in LogEntry, NEW S, e.scan \in S,
         \A l \in AuditFile : \A n \in DOMAIN t[l] : t[l][n].scan \in S
  PROVE  \A l \in AuditFile : \A n \in DOMAIN Added(t, f, e)[l] : Added(t, f, e)[l][n].scan \in S
  <1> SUFFICES ASSUME NEW l \in AuditFile, NEW n \in DOMAIN Added(t, f, e)[l]
               PROVE  Added(t, f, e)[l][n].scan \in S
    OBVIOUS
  <1>1. CASE n \in DOMAIN t[l]
    <2>1. Added(t, f, e)[l][n] = t[l][n]
      BY <1>1, AppendedTrail
    <2> QED
      BY <1>1, <2>1
  <1>2. CASE n \notin DOMAIN t[l]
    <2>1. Added(t, f, e)[l][n] = e
      BY <1>2, AppendedTrail
    <2> QED
      BY <2>1
  <1> QED
    BY <1>1, <1>2

\* An entry that is not one of scan i leaves it as it was.
LEMMA OtherEntry ==
  ASSUME NEW t \in Trails, NEW f \in AuditFile, NEW e \in LogEntry,
         NEW i, e.scan # i \/ e.visual, NEW s \in Scan, Settled(t, s, i)
  PROVE  Settled(Added(t, f, e), s, i)
  <1> DEFINE u == Added(t, f, e)
  <1>1. \A l \in AuditFile : \A n \in DOMAIN t[l] : n \in DOMAIN u[l] /\ u[l][n] = t[l][n]
    BY AppendedTrail
  <1>6. \A l \in AuditFile : \A n \in DOMAIN u[l] :
           n \in DOMAIN t[l] \/ (l = f /\ n = Len(t[f]) + 1)
    BY AppendedTrail
  <1>7. u[f][Len(t[f]) + 1] = e
    BY AppendedTrail
  <1> HIDE DEF u
  <1>2. \A l \in AuditFile : \A n \in DOMAIN u[l] :
          IsEntryOf(u, l, n, i) => n \in DOMAIN t[l] /\ IsEntryOf(t, l, n, i)
    BY <1>1, <1>6, <1>7 DEF IsEntryOf
  <1>3. \A l \in AuditFile : \A n \in DOMAIN t[l] :
          IsEntryOf(t, l, n, i) => IsEntryOf(u, l, n, i)
    BY <1>1 DEF IsEntryOf
  <1>4. Unrecorded(t, i) => Unrecorded(u, i)
    BY <1>2 DEF Unrecorded
  <1>5. ASSUME RecordedOnce(t, s, i) PROVE RecordedOnce(u, s, i)
    <2>1. PICK n \in DOMAIN t[s.log] :
            /\ IsEntryOf(t, s.log, n, i)
            /\ t[s.log][n].domain = s.domain
            /\ \A l \in AuditFile : \A m \in DOMAIN t[l] :
                  IsEntryOf(t, l, m, i) => l = s.log /\ m = n
      BY <1>5 DEF RecordedOnce
    <2>2. s.log \in AuditFile
      BY <1>5 DEF RecordedOnce
    <2>3. /\ n \in DOMAIN u[s.log] /\ IsEntryOf(u, s.log, n, i)
          /\ u[s.log][n].domain = s.domain
      BY <1>1, <1>3, <2>1, <2>2
    <2>4. \A l \in AuditFile : \A m \in DOMAIN u[l] :
             IsEntryOf(u, l, m, i) => l = s.log /\ m = n
      BY <1>2, <2>1
    <2> QED
      BY <2>2, <2>3, <2>4 DEF RecordedOnce
  <1> QED
    BY <1>4, <1>5 DEF Settled, u

\* The scan's own entry.
LEMMA OwnEntry ==
  ASSUME NEW t \in Trails, NEW s \in Scan, s.log \in AuditFile, NEW e \in LogEntry,
         ~e.visual, e.domain = s.domain, Unrecorded(t, e.scan)
  PROVE  RecordedOnce(Added(t, s.log, e), s, e.scan)
  <1> DEFINE n == Len(t[s.log]) + 1
             u == Added(t, s.log, e)
  <1>1. n \in DOMAIN u[s.log] /\ u[s.log][n] = e
    BY AppendedTrail
  <1>2. \A l \in AuditFile : \A m \in DOMAIN u[l] :
          IsEntryOf(u, l, m, e.scan) => l = s.log /\ m = n
    <2> SUFFICES ASSUME NEW l \in AuditFile, NEW m \in DOMAIN u[l], IsEntryOf(u, l, m, e.scan),
                        ~(l = s.log /\ m = n)
                 PROVE  FALSE
      OBVIOUS
    <2>1. m \in DOMAIN t[l] /\ u[l][m] = t[l][m]
      BY AppendedTrail
    <2> QED
      BY <2>1 DEF IsEntryOf, Unrecorded
  <1>3. IsEntryOf(u, s.log, n, e.scan)
    BY <1>1 DEF IsEntryOf
  <1> HIDE DEF n
  <1> QED
    BY <1>1, <1>2, <1>3 DEF RecordedOnce

-----------------------------------------------------------------------------
\* A step that records nothing and neither begins nor ends a scan, except by a
\* signal.
LEMMA QuietLog ==
  ASSUME LogInv, UNCHANGED shellLog, named' \subseteq AuditFile \union {Nothing},
         \/ UNCHANGED <<step, service>>
         \/ step \notin {"tool", "recording", "killed"} /\ step' \notin {"tool", "recording"}
         \/ step' = "killed"
  PROVE  LogInv'
  <1>0. UNCHANGED scans /\ UNCHANGED trail
    BY DEF shellLog
  <1>1. LogTyped' /\ KnownScans'
    BY <1>0 DEF LogInv, LogTyped, KnownScans
  <1>2. PendingScan'
    BY <1>0 DEF LogInv, PendingScan, LastScan, Unrecorded, IsEntryOf
  <1>3. \A i \in 1 .. Len(scans) : Unsettled(i) => Unsettled(i)'
    BY <1>0 DEF Unsettled
  <1>4. SettledScans'
    BY <1>0, <1>3 DEF LogInv, SettledScans, Settled, Unrecorded, RecordedOnce, IsEntryOf
  <1> QED
    BY <1>1, <1>2, <1>4 DEF LogInv

LEMMA ThumbnailLog ==
  ASSUME ViewInv, LogInv, NEW i \in 1 .. MaxScans, AuditThumbnail(i) PROVE LogInv'
  <1> DEFINE f == ServiceNow.config.log
             e == [scan |-> i, domain |-> ServiceNow.domain, visual |-> TRUE]
  <1>1. /\ step = "input" /\ step' = "prompt" /\ UNCHANGED <<scans, named>>
        /\ f # Nothing
        /\ \E n \in 1 .. Len(trail[f]) : trail[f][n].scan = i
        /\ trail' = Added(trail, f, e)
    BY DEF AuditThumbnail, GetService, Audited, Added
  <1>2. f \in AuditFile /\ e \in LogEntry
    BY <1>1, ServiceNowType, ShellConstants, ShellAssumption DEF AuditThumbnail, ShellService, LogEntry
  <1>3. LogTyped /\ trail \in Trails /\ i \in 1 .. Len(scans)
    BY <1>1, <1>2 DEF LogInv, LogTyped, KnownScans, Trails
  <1>9. e.visual
    OBVIOUS
  <1> HIDE DEF f, e
  <1>4. LogTyped'
    <2>1. trail' \in Trails
      BY <1>1, <1>2, <1>3, AppendedTrail
    <2> QED
      BY <1>1, <1>3, <2>1 DEF LogTyped
  <1>5. KnownScans'
    <2>1. e.scan \in 1 .. Len(scans)
      BY <1>3 DEF e
    <2> QED
      BY <1>1, <1>2, <1>3, <2>1, AddedKnows DEF LogInv, KnownScans
  <1>6. PendingScan'
    BY <1>1 DEF PendingScan
  <1>7. ASSUME NEW j \in 1 .. Len(scans) PROVE Settled(trail', scans[j], j)
    <2>1. Settled(trail, scans[j], j) /\ scans[j] \in Scan
      BY <1>1, <1>3 DEF LogInv, LogTyped, SettledScans, Unsettled
    <2> QED
      BY <1>1, <1>2, <1>3, <1>9, <2>1, OtherEntry
  <1>8. SettledScans'
    BY <1>1, <1>7 DEF LogInv, SettledScans
  <1> QED
    BY <1>4, <1>5, <1>6, <1>8 DEF LogInv

LEMMA StartScanLog ==
  ASSUME ViewInv, LogInv, StartScan PROVE LogInv'
  <1> DEFINE new == [domain |-> active, log |-> ServiceNow.config.log,
                     named |-> named, ended |-> "no", lost |-> FALSE]
  <1>1. /\ step = "input" /\ step' = "tool" /\ UNCHANGED <<trail, named>>
        /\ scans' = Append(scans, new)
        /\ service' = ServiceNow
    BY DEF StartScan, GetService
  <1>2. /\ LogTyped /\ scans \in Seq(Scan) /\ Len(scans) \in Nat
        /\ ServiceNow \in ShellService /\ ServiceNow.domain = active
        /\ ServiceNow.config.log \in named
    BY ServiceNowType DEF StartScan, LogInv, LogTyped
  <1>3. new \in Scan /\ new.log = ServiceNow.config.log /\ new.domain = ServiceNow.domain
        /\ new.log \in new.named
    BY <1>2 DEF LogTyped, Scan, ShellService
  <1> HIDE DEF new
  <1>4. /\ scans' \in Seq(Scan) /\ Len(scans') = Len(scans) + 1
        /\ scans'[Len(scans) + 1] = new
        /\ \A i \in 1 .. Len(scans) : scans'[i] = scans[i]
    BY <1>1, <1>2, <1>3
  <1>5. LogTyped'
    BY <1>1, <1>2, <1>4 DEF LogTyped
  <1>6. KnownScans'
    BY <1>1, <1>2, <1>4 DEF LogInv, KnownScans
  <1>7. Unrecorded(trail, Len(scans) + 1)
    BY <1>2 DEF LogInv, KnownScans, Unrecorded, IsEntryOf
  <1>8. PendingScan'
    <2>1. Len(scans') \in 1 .. Len(scans')
      BY <1>2, <1>4
    <2>2. LastScan' = new
      BY <1>4 DEF LastScan
    <2>3. Unrecorded(trail, Len(scans'))
      BY <1>4, <1>7
    <2> QED
      BY <1>1, <1>3, <2>1, <2>2, <2>3 DEF PendingScan
  <1>9. SettledScans'
    <2> SUFFICES ASSUME NEW i \in 1 .. Len(scans')
                 PROVE  /\ scans'[i].log \in scans'[i].named
                        /\ ~Unsettled(i)' => Settled(trail, scans'[i], i)
      BY <1>1 DEF SettledScans
    <2>1. CASE i = Len(scans')
      BY <1>1, <1>3, <1>4, <2>1 DEF Unsettled
    <2>2. CASE i # Len(scans')
      <3>1. i \in 1 .. Len(scans) /\ scans'[i] = scans[i]
        BY <1>2, <1>4, <2>2
      <3> QED
        BY <1>1, <3>1 DEF LogInv, SettledScans, Unsettled
    <2> QED
      BY <2>1, <2>2
  <1> QED
    BY <1>5, <1>6, <1>8, <1>9 DEF LogInv

\* A field of the last scan changes.
LEMMA LastScanChanges ==
  ASSUME NEW s \in Seq(Scan), NEW u, Len(s) \in 1 .. Len(s),
         \/ \E how \in {"ok", "failed"} : u = [s EXCEPT ![Len(s)].ended = how]
         \/ \E b \in BOOLEAN : u = [s EXCEPT ![Len(s)].lost = b]
  PROVE  /\ u \in Seq(Scan) /\ Len(u) = Len(s)
         /\ \A i \in 1 .. Len(s) : /\ u[i].log = s[i].log /\ u[i].domain = s[i].domain
                                   /\ u[i].named = s[i].named
                                   /\ i # Len(s) => u[i] = s[i]
  <1>1. s[Len(s)] \in Scan
    OBVIOUS
  <1> DEFINE LastChanged == \E r \in Scan : /\ u = [s EXCEPT ![Len(s)] = r]
                                        /\ r.log = s[Len(s)].log
                                        /\ r.domain = s[Len(s)].domain
                                        /\ r.named = s[Len(s)].named
  <1>2. LastChanged
    <2>1. ASSUME NEW how \in {"ok", "failed"}, u = [s EXCEPT ![Len(s)].ended = how]
          PROVE  LastChanged
      <3> DEFINE r == [s[Len(s)] EXCEPT !.ended = how]
      <3>1. r \in Scan /\ u = [s EXCEPT ![Len(s)] = r]
        BY <1>1, <2>1 DEF Scan
      <3>2. r.log = s[Len(s)].log /\ r.domain = s[Len(s)].domain /\ r.named = s[Len(s)].named
        BY <1>1 DEF Scan
      <3> HIDE DEF r
      <3> QED
        BY <3>1, <3>2
    <2>2. ASSUME NEW b \in BOOLEAN, u = [s EXCEPT ![Len(s)].lost = b]
          PROVE  LastChanged
      <3> DEFINE r == [s[Len(s)] EXCEPT !.lost = b]
      <3>1. r \in Scan /\ u = [s EXCEPT ![Len(s)] = r]
        BY <1>1, <2>2 DEF Scan
      <3>2. r.log = s[Len(s)].log /\ r.domain = s[Len(s)].domain /\ r.named = s[Len(s)].named
        BY <1>1 DEF Scan
      <3> HIDE DEF r
      <3> QED
        BY <3>1, <3>2
    <2> QED
      BY <2>1, <2>2
  <1>3. PICK r \in Scan : /\ u = [s EXCEPT ![Len(s)] = r]
                          /\ r.log = s[Len(s)].log /\ r.domain = s[Len(s)].domain
                          /\ r.named = s[Len(s)].named
    BY <1>2
  <1> QED
    BY <1>3

LEMMA ToolEndsLog ==
  ASSUME LogInv, NEW how \in {"ok", "failed"}, ToolEnds(how) PROVE LogInv'
  <1>1. /\ step = "tool" /\ step' = "recording" /\ UNCHANGED <<trail, named, service>>
        /\ scans' = [scans EXCEPT ![Len(scans)].ended = how]
    BY DEF ToolEnds, shellView
  <1>2. LogTyped /\ scans \in Seq(Scan) /\ Len(scans) \in 1 .. Len(scans)
    BY <1>1 DEF LogInv, LogTyped, PendingScan
  <1>3. /\ scans' \in Seq(Scan) /\ Len(scans') = Len(scans)
        /\ \A i \in 1 .. Len(scans) : /\ scans'[i].log = scans[i].log
                                      /\ scans'[i].domain = scans[i].domain
                                      /\ scans'[i].named = scans[i].named
                                      /\ i # Len(scans) => scans'[i] = scans[i]
    BY <1>1, <1>2, LastScanChanges
  <1>4. LogTyped' /\ KnownScans'
    BY <1>1, <1>2, <1>3 DEF LogInv, LogTyped, KnownScans
  <1>5. PendingScan'
    BY <1>1, <1>2, <1>3 DEF LogInv, PendingScan, LastScan, Unrecorded, IsEntryOf
  <1>6. SettledScans'
    <2> SUFFICES ASSUME NEW i \in 1 .. Len(scans)
                 PROVE  /\ scans'[i].log \in scans'[i].named
                        /\ ~Unsettled(i)' => Settled(trail, scans'[i], i)
      BY <1>1, <1>3 DEF SettledScans
    <2>1. scans[i].log \in scans[i].named /\ (~Unsettled(i) => Settled(trail, scans[i], i))
      BY DEF LogInv, SettledScans
    <2>2. Unsettled(i)' <=> i = Len(scans)
      BY <1>1, <1>3 DEF Unsettled
    <2>3. i # Len(scans) => ~Unsettled(i)
      BY DEF Unsettled
    <2> QED
      BY <1>3, <2>1, <2>2, <2>3
  <1> QED
    BY <1>4, <1>5, <1>6 DEF LogInv

LEMMA RecordScanLog ==
  ASSUME ViewInv, LogInv, NEW stored \in BOOLEAN, RecordScan(stored) PROVE LogInv'
  <1> DEFINE f == service.config.log
             lost == f # Nothing /\ ~stored
  <1>1. /\ step = "recording" /\ step' = "prompt" /\ UNCHANGED <<named, service>>
        /\ trail' = IF stored /\ f # Nothing THEN Added(trail, f, Entry) ELSE trail
        /\ scans' = [scans EXCEPT ![Len(scans)].lost = lost]
    BY DEF RecordScan, shellView, Audited, Added
  <1>2. /\ LogTyped /\ scans \in Seq(Scan) /\ Len(scans) \in 1 .. Len(scans) /\ trail \in Trails
        /\ scans[Len(scans)].log = f /\ scans[Len(scans)].domain = service.domain
        /\ Unrecorded(trail, Len(scans))
    BY <1>1 DEF LogInv, LogTyped, PendingScan, LastScan
  <1>3. f \in AuditFile \union {Nothing} /\ service.domain \in Domain
    BY <1>1, ShellConstants DEF ViewInv, ViewTyped, HoldsServices, ShellService
  <1>4. Entry \in LogEntry /\ Entry.scan = Len(scans) /\ ~Entry.visual /\ Entry.domain = service.domain
    BY <1>2, <1>3 DEF Entry, LogEntry
  <1>5. lost \in BOOLEAN
    OBVIOUS
  <1> HIDE DEF f, lost
  <1>6. /\ scans' \in Seq(Scan) /\ Len(scans') = Len(scans)
        /\ \A i \in 1 .. Len(scans) : /\ scans'[i].log = scans[i].log
                                      /\ scans'[i].domain = scans[i].domain
                                      /\ scans'[i].named = scans[i].named
                                      /\ i # Len(scans) => scans'[i] = scans[i]
    <2>1. \E b \in BOOLEAN : scans' = [scans EXCEPT ![Len(scans)].lost = b]
      BY <1>1, <1>5
    <2> QED
      <3>1. scans \in Seq(Scan) /\ Len(scans) \in 1 .. Len(scans)
        BY <1>2
      <3> QED
        BY <2>1, <3>1, LastScanChanges
  <1>7. scans'[Len(scans)].lost = lost /\ scans'[Len(scans)] \in Scan
    BY <1>1, <1>2, <1>6 DEF Scan
  <1>8. PendingScan'
    BY <1>1 DEF PendingScan
  <1>9. \A i \in 1 .. Len(scans) : i # Len(scans) => Settled(trail, scans[i], i)
    BY DEF LogInv, SettledScans, Unsettled
  <1>10. \A i \in 1 .. Len(scans) : scans'[i].log \in scans'[i].named
    BY <1>6 DEF LogInv, SettledScans
  <1>11. CASE stored /\ f # Nothing
    <2>1. trail' = Added(trail, f, Entry) /\ f \in AuditFile
      BY <1>1, <1>3, <1>11
    <2>2. LogTyped'
      <3>1. trail' \in Trails
        BY <1>2, <1>4, <2>1, AppendedTrail
      <3> QED
        BY <1>1, <1>2, <1>6, <3>1 DEF LogTyped
    <2>3. KnownScans'
      BY <1>2, <1>4, <1>6, <2>1, AddedKnows DEF LogInv, KnownScans
    <2>4. ASSUME NEW i \in 1 .. Len(scans), i # Len(scans) PROVE Settled(trail', scans'[i], i)
      <3>1. Settled(trail, scans[i], i) /\ scans[i] \in Scan /\ scans'[i] = scans[i]
        BY <1>2, <1>6, <1>9, <2>4
      <3>2. Entry.scan # i
        BY <1>4, <2>4
      <3> QED
        BY <1>2, <1>4, <2>1, <3>1, <3>2, OtherEntry
    <2>5. Settled(trail', scans'[Len(scans)], Len(scans))
      <3>1. RecordedOnce(trail', scans'[Len(scans)], Len(scans))
        BY <1>2, <1>4, <1>6, <1>7, <2>1, OwnEntry
      <3> QED
        BY <1>2, <1>6, <1>7, <1>11, <3>1 DEF Settled, lost
    <2>6. SettledScans'
      BY <1>2, <1>6, <1>10, <2>4, <2>5 DEF SettledScans
    <2> QED
      BY <1>8, <2>2, <2>3, <2>6 DEF LogInv
  <1>12. CASE ~(stored /\ f # Nothing)
    <2>1. UNCHANGED trail
      BY <1>1, <1>12
    <2>2. LogTyped' /\ KnownScans'
      BY <1>1, <1>2, <1>6, <2>1 DEF LogInv, LogTyped, KnownScans
    <2>3. Settled(trail, scans'[Len(scans)], Len(scans))
      BY <1>2, <1>6, <1>7, <1>12 DEF Settled, lost
    <2>4. SettledScans'
      BY <1>2, <1>6, <1>9, <1>10, <2>1, <2>3 DEF SettledScans
    <2> QED
      BY <1>8, <2>2, <2>4 DEF LogInv
  <1> QED
    BY <1>11, <1>12

LEMMA NamedStep ==
  ASSUME ViewInv, named \subseteq AuditFile \union {Nothing}, [ShellNext]_shellVars
  PROVE  named' \subseteq AuditFile \union {Nothing}
  <1>0. ViewTyped
    BY DEF ViewInv
  <1>1. CASE \E d \in Domain \union {Nothing} : InvokeShell(d)
    <2>1. PICK d \in Domain \union {Nothing} : InvokeShell(d)
      BY <1>1
    <2>2. CASE d = Nothing \/ ~Known(d)
      BY <2>1, <2>2 DEF InvokeShell, shellView
    <2>3. CASE d # Nothing /\ Known(d)
      <3>1. LoadAll /\ d \in Domain /\ named' = {domainFile[d].log}
        BY <2>1, <2>3 DEF InvokeShell
      <3> QED
        BY <1>0, <2>3, <3>1, LoadAllType, ShellConstants
    <2> QED
      BY <2>2, <2>3
  <1>2. CASE Prompt
    <2>1. CASE active = Nothing \/ LoadFails
      BY <1>2, <2>1 DEF Prompt, shellView, EndSession
    <2>2. CASE active # Nothing /\ ~LoadFails
      <3>1. /\ named' = named \union {IF domainFile[active] = Absent THEN Nothing
                                      ELSE domainFile[active].log}
            /\ active \in Domain /\ domainFile[active] # Broken
        BY <1>0, <1>2, <2>2 DEF Prompt, ViewTyped, LoadFails
      <3>2. domainFile[active] \in Config \union {Absent}
        BY <1>0, <3>1 DEF ViewTyped
      <3> QED
        BY <3>1, <3>2, ShellConstants
    <2> QED
      BY <2>1, <2>2
  <1>3. CASE \E d \in Domain : SetDomain(d)
    <2>1. PICK d \in Domain : SetDomain(d)
      BY <1>3
    <2>2. CASE ~Known(d)
      BY <2>1, <2>2 DEF SetDomain
    <2>3. CASE Known(d)
      <3>1. LoadAll /\ named' = {domainFile[d].log}
        BY <2>1, <2>3 DEF SetDomain
      <3> QED
        BY <1>0, <2>3, <3>1, LoadAllType, ShellConstants
    <2> QED
      BY <2>2, <2>3
  <1>4. CASE ListDomains \/ ShowDomain \/ WriteBadge \/ HandleSecrets \/ RunDomainQr \/ RunTls
             \/ PrintHelp \/ ShowFeatures \/ RunBuild
    BY <1>4 DEF ListDomains, ShowDomain, WriteBadge, HandleSecrets, RunDomainQr,
       RunTls, PrintHelp, ShowFeatures, RunBuild, Replies
  <1>5. CASE \/ UseService \/ StartScan \/ RefuseScan \/ FollowLog
             \/ \E i \in 1 .. MaxScans : AuditThumbnail(i)
    BY <1>5 DEF UseService, StartScan, RefuseScan, FollowLog, AuditThumbnail, GetService
  <1>6. CASE \/ \E d \in Domain : InvokeStart(d)
             \/ \E d \in Domain, json, tty \in BOOLEAN : InvokeScan(d, json, tty)
    BY <1>6 DEF InvokeStart, InvokeScan
  <1>7. CASE Leave
    BY <1>7 DEF Leave, EndSession
  <1>8. CASE \/ \E d \in Domain, content \in Config \union {Absent, Broken} : EditDomainFile(d, content)
             \/ (\E code \in {"ok", "failed"} : OneShotEnds(code) \/ InvokeOther(code))
             \/ InvokeUnknown \/ StopFollowing \/ InterruptServer \/ Killed
             \/ (\E how \in {"ok", "failed"} : ToolEnds(how))
             \/ (\E stored \in BOOLEAN : RecordScan(stored))
             \/ UNCHANGED shellVars
    BY <1>8 DEF EditDomainFile, OneShotEnds, InvokeOther, InvokeUnknown, StopFollowing,
       InterruptServer, Killed, ToolEnds, RecordScan, shellView, shellVars
  <1> QED
    BY <1>1, <1>2, <1>3, <1>4, <1>5, <1>6, <1>7, <1>8 DEF ShellNext

LEMMA LogStep == ViewInv /\ LogInv /\ [ShellNext]_shellVars => LogInv'
  <1> SUFFICES ASSUME ViewInv, LogInv, [ShellNext]_shellVars PROVE LogInv'
    OBVIOUS
  <1>0. named' \subseteq AuditFile \union {Nothing}
    BY NamedStep DEF LogInv, LogTyped
  <1>1. CASE \/ (\E d \in Domain \union {Nothing} : InvokeShell(d))
             \/ (\E d \in Domain : InvokeStart(d))
             \/ (\E d \in Domain, json, tty \in BOOLEAN : InvokeScan(d, json, tty))
             \/ (\E code \in {"ok", "failed"} : OneShotEnds(code) \/ InvokeOther(code))
             \/ InvokeUnknown
    <2>1. /\ UNCHANGED shellLog /\ step \in {"off", "one shot"}
          /\ step' \in {"prompt", "exit 0", "exit 1", "serving", "one shot"}
      BY <1>1 DEF InvokeShell, InvokeStart, InvokeScan, OneShotEnds, InvokeOther, InvokeUnknown
    <2> QED
      BY <1>0, <2>1, QuietLog
  <1>2. CASE Prompt \/ Leave \/ \E d \in Domain : SetDomain(d)
    <2>1. /\ UNCHANGED shellLog /\ step \in {"prompt", "input"}
          /\ step' \in {"prompt", "input", "exit 0", "exit 1"}
      BY <1>2 DEF Prompt, Leave, SetDomain, EndSession
    <2> QED
      BY <1>0, <2>1, QuietLog
  <1>3. CASE ListDomains \/ ShowDomain \/ WriteBadge \/ HandleSecrets \/ RunDomainQr \/ RunTls
             \/ PrintHelp \/ ShowFeatures \/ RunBuild
    <2>1. UNCHANGED shellLog /\ step = "input" /\ step' = "prompt"
      BY <1>3 DEF ListDomains, ShowDomain, WriteBadge, HandleSecrets, RunDomainQr,
         RunTls, PrintHelp, ShowFeatures, RunBuild, Replies
    <2> QED
      BY <1>0, <2>1, QuietLog
  <1>4. CASE UseService \/ RefuseScan \/ FollowLog \/ StopFollowing \/ InterruptServer
    <2>1. /\ UNCHANGED shellLog /\ step \in {"input", "following", "serving"}
          /\ step' \in {"prompt", "following", "returned"}
      BY <1>4 DEF UseService, RefuseScan, FollowLog, StopFollowing, InterruptServer
    <2> QED
      BY <1>0, <2>1, QuietLog
  <1>5. CASE Killed
    BY <1>0, <1>5, QuietLog DEF Killed
  <1>6. CASE \/ UNCHANGED shellVars
             \/ \E d \in Domain, content \in Config \union {Absent, Broken} : EditDomainFile(d, content)
    <2>1. UNCHANGED shellLog /\ UNCHANGED <<step, service>>
      BY <1>6 DEF EditDomainFile, shellVars, shellView
    <2> QED
      BY <1>0, <2>1, QuietLog
  <1>7. CASE \E i \in 1 .. MaxScans : AuditThumbnail(i)
    BY <1>7, ThumbnailLog
  <1>8. CASE StartScan
    BY <1>8, StartScanLog
  <1>9. CASE \E how \in {"ok", "failed"} : ToolEnds(how)
    BY <1>9, ToolEndsLog
  <1>10. CASE \E stored \in BOOLEAN : RecordScan(stored)
    BY <1>10, RecordScanLog
  <1> QED
    BY <1>1, <1>2, <1>3, <1>4, <1>5, <1>6, <1>7, <1>8, <1>9, <1>10 DEF ShellNext

\* What is settled is counted.
LEMMA CopiesCounted ==
  ASSUME LogInv, NEW i \in 1 .. Len(scans), ~Unsettled(i)
  PROVE  /\ \A c \in Copies(i) : trail[c[1]][c[2]].domain = scans[i].domain /\ c[1] \in scans[i].named
         /\ Cardinality(Copies(i)) = IF scans[i].log = Nothing \/ scans[i].lost THEN 0 ELSE 1
  <1>1. \A c : c \in Copies(i) <=> \E l \in AuditFile : \E n \in DOMAIN trail[l] :
                                      c = <<l, n>> /\ IsEntryOf(trail, l, n, i)
    BY DEF Copies, IsEntryOf
  <1>2. scans[i].log \in scans[i].named /\ Settled(trail, scans[i], i)
    BY DEF LogInv, SettledScans
  <1>3. CASE scans[i].log = Nothing \/ scans[i].lost
    <2>1. Copies(i) = {}
      BY <1>1, <1>2, <1>3 DEF Settled, Unrecorded
    <2> QED
      BY <1>3, <2>1, FS_EmptySet
  <1>4. CASE ~(scans[i].log = Nothing \/ scans[i].lost)
    <2>1. RecordedOnce(trail, scans[i], i)
      BY <1>2, <1>4 DEF Settled
    <2>5. PICK f \in AuditFile : f = scans[i].log
      BY <2>1 DEF RecordedOnce
    <2>2. PICK n \in DOMAIN trail[f] :
            /\ IsEntryOf(trail, f, n, i)
            /\ trail[f][n].domain = scans[i].domain
            /\ \A l \in AuditFile : \A m \in DOMAIN trail[l] :
                  IsEntryOf(trail, l, m, i) => l = f /\ m = n
      BY <2>1, <2>5 DEF RecordedOnce
    <2>3. Copies(i) = {<<f, n>>}
      BY <1>1, <2>2
    <2>4. Cardinality(Copies(i)) = 1
      BY <2>3, FS_Singleton
    <2> QED
      BY <1>2, <1>4, <2>2, <2>3, <2>4, <2>5
  <1> QED
    BY <1>3, <1>4

LEMMA ScansHold == LogInv => EveryScanIsAccounted
  <1> SUFFICES ASSUME LogInv, AtPrompt, NEW i \in 1 .. Len(scans)
               PROVE  /\ scans[i].log \in scans[i].named
                      /\ \A c \in Copies(i) :
                            trail[c[1]][c[2]].domain = scans[i].domain /\ c[1] \in scans[i].named
                      /\ Cardinality(Copies(i)) =
                            IF scans[i].log = Nothing \/ scans[i].lost THEN 0 ELSE 1
    BY DEF EveryScanIsAccounted
  <1>1. ~Unsettled(i)
    BY DEF AtPrompt, Unsettled
  <1>2. scans[i].log \in scans[i].named
    BY DEF LogInv, SettledScans
  <1> QED
    BY <1>1, <1>2, CopiesCounted

(* Every scan that ended is in one audit log exactly once, under the       *)
(* domain it was typed for, in a file that this domain has named since it  *)
(* was chosen, whatever its exit code, unless the domain keeps no log or   *)
(* the operator was told of the failed write; for every number of domains, *)
(* files, scans and edits between them (shell.ts:212-235, 295-305,         *)
(* 559-595).                                                               *)
THEOREM ScansAreAccounted == ShellSpec => []EveryScanIsAccounted
  BY ScansHold, ViewInit, ViewStep, LogInit, LogStep, PTL DEF ShellSpec

-----------------------------------------------------------------------------
(* The secrets that services sign with.                                    *)

AnySecret == Secret \union {Empty}
ServiceState == [at : {"none", "waiting", "serving", "stopped"}, uses : Service \union {NoBody},
                 bound : BOOLEAN, secret : AnySecret, since : SUBSET AnySecret]

\* What a context holds: nothing yet, no secret, or one of those given.
Holds(content, secrets) == content \in {Pending, Empty} \union secrets

\* A context is asked for by a service that has begun.
AskedFor(s) == s \in Service /\ services[s].at # "none"

ServiceHolds(s) ==
    /\ services[s].at = "waiting" =>
          /\ AskedFor(services[s].uses)
          /\ Holds(promise[services[s].uses], services[s].since)
          /\ secret \in services[s].since
    /\ services[s].at = "serving" => services[s].secret \in {Empty} \union services[s].since

CsrfInv ==
    /\ services \in [Service -> ServiceState]
    /\ DOMAIN promise = Service
    /\ secret \in AnySecret /\ since \subseteq AnySecret /\ secret \in since
    /\ cached # NoBody => AskedFor(cached) /\ Holds(promise[cached], since)
    /\ \A s \in Service : ServiceHolds(s)

LEMMA CsrfInitially == CsrfInit => CsrfInv
  BY DEF CsrfInit, CsrfInv, ServiceHolds, ServiceState, NotMade, AnySecret, Secret

\* Every secret that the keychain gets is one that whoever waits may sign with.
LEMMA SecretKept ==
  ASSUME CsrfInv, NEW new \in AnySecret, HasSecret(new), UNCHANGED <<promise, cached>>
  PROVE  CsrfInv'
  <1>1. /\ secret' = new /\ since' = since \union {new}
        /\ services' = [s \in Service |->
              IF services[s].at = "waiting" THEN [services[s] EXCEPT !.since = @ \union {new}]
              ELSE services[s]]
    BY DEF HasSecret
  <1>2. ASSUME NEW s \in Service
        PROVE  /\ services'[s] \in ServiceState
               /\ services'[s].at = services[s].at /\ services'[s].uses = services[s].uses
               /\ services'[s].secret = services[s].secret
               /\ services[s].since \subseteq services'[s].since
               /\ services[s].at = "waiting" => new \in services'[s].since
    <2>1. services[s] \in ServiceState
      BY DEF CsrfInv
    <2>2. CASE services[s].at = "waiting"
      <3>1. PICK now : now = [services[s] EXCEPT !.since = services[s].since \union {new}]
        OBVIOUS
      <3>2. services'[s] = now
        BY <1>1, <2>2, <3>1
      <3>3. /\ now \in ServiceState /\ now.at = services[s].at /\ now.uses = services[s].uses
            /\ now.secret = services[s].secret /\ now.since = services[s].since \union {new}
        BY <2>1, <3>1 DEF ServiceState
      <3> QED
        BY <3>2, <3>3
    <2>3. CASE services[s].at # "waiting"
      BY <1>1, <2>1, <2>3
    <2> QED
      BY <2>2, <2>3
  <1>3. services' \in [Service -> ServiceState]
    BY <1>1, <1>2
  <1>4. ASSUME NEW s \in Service PROVE ServiceHolds(s)'
    BY <1>1, <1>2 DEF CsrfInv, ServiceHolds, AskedFor, Holds
  <1>5. cached' # NoBody => AskedFor(cached)' /\ Holds(promise'[cached'], since')
    BY <1>1, <1>2 DEF CsrfInv, AskedFor, Holds
  <1> QED
    BY <1>1, <1>3, <1>4, <1>5 DEF CsrfInv

LEMMA BeginServiceKeeps ==
  ASSUME CsrfInv, NEW s \in Service, NEW bound \in BOOLEAN, BeginService(s, bound) PROVE CsrfInv'
  <1>1. PICK from : from = IF cached = NoBody THEN s ELSE cached
    OBVIOUS
  <1>2. PICK new : new = [NotMade EXCEPT !.at = "waiting", !.uses = from, !.bound = bound,
                                         !.since = since]
    OBVIOUS
  <1>3. /\ services[s].at = "none" /\ cached' = from
        /\ promise' = IF cached = NoBody THEN [promise EXCEPT ![s] = Pending] ELSE promise
        /\ services' = [services EXCEPT ![s] = new]
        /\ UNCHANGED <<secret, since>>
    BY <1>1, <1>2 DEF BeginService
  <1>4. from \in Service
    BY <1>1 DEF CsrfInv, AskedFor
  <1>5. /\ new \in ServiceState /\ new.at = "waiting" /\ new.uses = from /\ new.since = since
    BY <1>2, <1>4 DEF NotMade, ServiceState, AnySecret, CsrfInv
  <1>6. /\ services' \in [Service -> ServiceState] /\ services'[s] = new
        /\ \A t \in Service \ {s} : services'[t] = services[t]
        /\ \A t \in Service : services[t].at # "none" => services'[t].at # "none"
    BY <1>3, <1>5 DEF CsrfInv
  <1>7. /\ DOMAIN promise' = Service
        /\ \A t \in Service \ {s} : promise'[t] = promise[t]
    BY <1>3 DEF CsrfInv
  <1>8. Holds(promise'[from], since) /\ services'[from].at # "none"
    <2>1. CASE cached = NoBody
      BY <1>1, <1>3, <1>5, <1>6, <2>1 DEF CsrfInv, Holds
    <2>2. CASE cached # NoBody
      BY <1>1, <1>3, <1>6, <2>2 DEF CsrfInv, AskedFor
    <2> QED
      BY <2>1, <2>2
  <1>9. ASSUME NEW t \in Service PROVE ServiceHolds(t)'
    <2>1. CASE t = s
      BY <1>3, <1>4, <1>5, <1>6, <1>8, <2>1 DEF CsrfInv, ServiceHolds, AskedFor
    <2>2. CASE t # s
      <3>1. ServiceHolds(t) /\ services'[t] = services[t]
        BY <1>6, <2>2 DEF CsrfInv
      <3>2. services[t].at = "waiting" => services[t].uses \in Service \ {s}
        BY <1>3, <3>1 DEF ServiceHolds, AskedFor
      <3> QED
        BY <1>3, <1>6, <1>7, <3>1, <3>2 DEF ServiceHolds, AskedFor
    <2> QED
      BY <2>1, <2>2
  <1> QED
    BY <1>3, <1>4, <1>6, <1>7, <1>8, <1>9 DEF CsrfInv, AskedFor

LEMMA ReadSecretKeeps ==
  ASSUME CsrfInv, NEW s \in Service, ReadSecret(s) PROVE CsrfInv'
  <1>1. /\ promise' = [promise EXCEPT ![s] = IF locked THEN Empty ELSE secret]
        /\ UNCHANGED <<secret, cached, services, since>>
    BY DEF ReadSecret
  <1>2. \A t \in Service : \A secrets :
            secret \in secrets /\ Holds(promise[t], secrets) => Holds(promise'[t], secrets)
    BY <1>1 DEF CsrfInv, Holds
  <1>3. \A t \in Service : ServiceHolds(t)'
    BY <1>1, <1>2 DEF CsrfInv, ServiceHolds, AskedFor
  <1>4. cached # NoBody => AskedFor(cached)' /\ Holds(promise'[cached], since)
    BY <1>1, <1>2 DEF CsrfInv, AskedFor
  <1> QED
    BY <1>1, <1>3, <1>4 DEF CsrfInv

\* One service goes on to another state.
LEMMA ServiceGoes ==
  ASSUME CsrfInv, NEW s \in Service, NEW new \in ServiceState,
         services' = [services EXCEPT ![s] = new], new.at \in {"serving", "stopped"},
         new.at = "serving" => new.secret \in {Empty} \union new.since,
         UNCHANGED <<secret, promise, cached, since>>
  PROVE  CsrfInv'
  <1>1. /\ services' \in [Service -> ServiceState] /\ services'[s] = new
        /\ \A t \in Service \ {s} : services'[t] = services[t]
        /\ \A t \in Service : services[t].at # "none" => services'[t].at # "none"
    BY DEF CsrfInv
  <1>2. ASSUME NEW t \in Service PROVE ServiceHolds(t)'
    <2>1. CASE t = s
      BY <1>1, <2>1 DEF ServiceHolds
    <2>2. CASE t # s
      BY <1>1, <2>2 DEF CsrfInv, ServiceHolds, AskedFor
    <2> QED
      BY <2>1, <2>2
  <1> QED
    BY <1>1, <1>2 DEF CsrfInv, AskedFor

LEMMA CsrfStep == CsrfInv /\ [CsrfNext]_csrfVars => CsrfInv'
  <1> SUFFICES ASSUME CsrfInv, [CsrfNext]_csrfVars PROVE CsrfInv'
    OBVIOUS
  <1>0. Empty \in AnySecret /\ VaultCommand \subseteq AnySecret
    BY DEF AnySecret, Secret
  <1>1. CASE \/ Lock \/ UNCHANGED csrfVars
             \/ (\E c \in VaultCommand, kind \in Kind : BeginCommand(c, kind))
             \/ (\E c \in VaultCommand : GetSecret(c) \/ ReadStatus(c) \/ VaultDoctor(c))
             \/ (\E s \in Service, session \in Session \union {NoSession} : IssueToken(s, session))
    <2>1. UNCHANGED <<secret, promise, cached, services, since>>
      BY <1>1 DEF Lock, csrfVars, BeginCommand, GetSecret, ReadStatus, VaultDoctor, Reads, IssueToken
    <2> QED
      BY <2>1 DEF CsrfInv, ServiceHolds, AskedFor
  <1>2. CASE \E c \in VaultCommand, refused \in BOOLEAN :
                RotateSecret(c, refused) \/ SetSecret(c, refused)
    <2>1. PICK c \in VaultCommand :
            /\ UNCHANGED <<promise, cached>>
            /\ HasSecret(c) \/ UNCHANGED <<secret, since, services>>
      BY <1>2 DEF RotateSecret, SetSecret
    <2>2. CASE HasSecret(c)
      BY <1>0, <2>1, <2>2, SecretKept
    <2>3. CASE UNCHANGED <<secret, since, services>>
      BY <2>1, <2>3 DEF CsrfInv, ServiceHolds, AskedFor
    <2> QED
      BY <2>1, <2>2, <2>3
  <1>3. CASE \E c \in VaultCommand : DeleteSecret(c)
    <2>1. /\ UNCHANGED <<promise, cached>>
          /\ HasSecret(Empty) \/ UNCHANGED <<secret, since, services>>
      BY <1>3 DEF DeleteSecret
    <2>2. CASE HasSecret(Empty)
      BY <1>0, <2>1, <2>2, SecretKept
    <2>3. CASE UNCHANGED <<secret, since, services>>
      BY <2>1, <2>3 DEF CsrfInv, ServiceHolds, AskedFor
    <2> QED
      BY <2>1, <2>2, <2>3
  <1>4. CASE Reload
    BY <1>4 DEF Reload, CsrfInv, ServiceHolds, AskedFor
  <1>5. CASE \E s \in Service, bound \in BOOLEAN : BeginService(s, bound)
    BY <1>5, BeginServiceKeeps
  <1>6. CASE \E s \in Service : ReadSecret(s)
    BY <1>6, ReadSecretKeeps
  <1>7. CASE \E s \in Service : ServiceServes(s)
    <2>1. PICK s \in Service : ServiceServes(s)
      BY <1>7
    <2>2. PICK got : got = promise[services[s].uses]
      OBVIOUS
    <2>3. PICK new : new = [services[s] EXCEPT !.at = "serving", !.secret = got]
      OBVIOUS
    <2>4. services[s] \in ServiceState /\ got \in {Empty} \union services[s].since
      BY <2>1, <2>2 DEF ServiceServes, CsrfInv, ServiceHolds, Holds
    <2>5. got \in AnySecret
      BY <2>4 DEF ServiceState, AnySecret
    <2>6. /\ new \in ServiceState /\ new.at = "serving" /\ new.secret = got
          /\ new.since = services[s].since
      BY <2>3, <2>4, <2>5 DEF ServiceState
    <2>7. services' = [services EXCEPT ![s] = new]
      BY <2>1, <2>2, <2>3 DEF ServiceServes, CsrfInv
    <2>8. UNCHANGED <<secret, promise, cached, since>>
      BY <2>1 DEF ServiceServes
    <2> QED
      BY <2>4, <2>6, <2>7, <2>8, ServiceGoes
  <1>8. CASE \E s \in Service : CloseService(s)
    <2>1. PICK s \in Service : CloseService(s)
      BY <1>8
    <2>2. PICK new : new = [NotMade EXCEPT !.at = "stopped"]
      OBVIOUS
    <2>3. new \in ServiceState /\ new.at = "stopped"
      BY <2>2 DEF NotMade, ServiceState, AnySecret
    <2>4. services' = [services EXCEPT ![s] = new] /\ UNCHANGED <<secret, promise, cached, since>>
      BY <2>1, <2>2 DEF CloseService
    <2> QED
      BY <2>3, <2>4, ServiceGoes
  <1> QED
    BY <1>1, <1>2, <1>3, <1>4, <1>5, <1>6, <1>7, <1>8 DEF CsrfNext

LEMMA PassedHolds == CsrfInv => PassedMeansEntitled
  <1> SUFFICES ASSUME CsrfInv, NEW s \in Service, NEW session \in Session \union {NoSession},
                      Passes(s, session)
               PROVE  /\ clientToken.secret \in services[s].since
                      /\ services[s].bound => clientToken.session = session
    BY DEF PassedMeansEntitled
  <1>1. services[s].secret \in services[s].since
    BY DEF CsrfInv, ServiceHolds, Passes, Guarded
  <1> QED
    BY <1>1 DEF Passes, Verifies, TokenSession

(* A request that passes a guard does so with a token for its own session, *)
(* where tokens are bound to one, and of a secret that was in the keychain *)
(* since the registry last dropped its contexts before the service was     *)
(* made, for any number of services that share a context that is being     *)
(* read while secrets are rotated and deleted (registry.ts:34-71,          *)
(* security.ts:120-134, csrf/guard.ts:46-74, domains/csrf.ts:62-97).       *)
THEOREM PassedIsEntitled == CsrfSpec => []PassedMeansEntitled
  BY PassedHolds, CsrfInitially, CsrfStep, PTL DEF CsrfSpec

\* The intervals up to the numbers of the set have one that includes no other.
LEMMA LeastExists ==
  ASSUME NEW S \in SUBSET Nat, S # {}
  PROVE  \E m \in S : \A n \in S : m <= n
  <1> DEFINE U == {1 .. n : n \in S}
  <1>1. U \subseteq FiniteSubsetsOf(Nat) /\ U # {}
    <2>1. \A n \in Nat : 1 .. n \in SUBSET Nat /\ IsFiniteSet(1 .. n)
      BY FS_Interval
    <2> QED
      BY <2>1 DEF FiniteSubsetsOf
  <1>2. PICK x \in U : \A y \in U : ~(<<y, x>> \in StrictSubsetOrdering(Nat))
    <2> HIDE DEF U
    <2> QED
      BY <1>1, WFMin, FS_StrictSubsetOrderingWellFounded
  <1>3. PICK m \in S : x = 1 .. m
    OBVIOUS
  <1>4. ASSUME NEW n \in S, n < m PROVE FALSE
    <2>1. 1 .. n \in U /\ 1 .. n \subseteq 1 .. m /\ 1 .. n # 1 .. m
      <3>1. m \in 1 .. m /\ m \notin 1 .. n
        BY <1>4
      <3>2. 1 .. n \subseteq 1 .. m
        BY <1>4
      <3> QED
        BY <3>1, <3>2
    <2>2. 1 .. n \in SUBSET Nat /\ 1 .. m \in SUBSET Nat
      OBVIOUS
    <2>3. <<1 .. n, 1 .. m>> \in StrictSubsetOrdering(Nat)
      BY <2>1, <2>2 DEF StrictSubsetOrdering
    <2> QED
      BY <1>2, <1>3, <2>1, <2>3
  <1> QED
    BY <1>4

-----------------------------------------------------------------------------
(* `sp doctor`: what it saw and what it would see.                         *)

\* The steps at a file: before its config is there, and from then on.
Judging == {"metadata", "secrets", "master key", "rest"}
Examining == {"private", "load"} \union LoadStep \union Judging
Busy == {"public", "pages", "index", "exit"} \union Examining
MaybeContent == Content \union {Unreadable, Gone}
Issue == Warning \union Error
AnySetting == RunSetting \union {Anyhow}
DoctorState ==
    [at : {"off"} \union Busy \union DoctorOver, setting : AnySetting, todo : SUBSET Path,
     raw : MaybeContent, stored : BOOLEAN, config : Content \union {Gone},
     inventory : {"none", "public", "private"}, issues : SUBSET Issue,
     reports : SUBSET Report, drift : {"unknown", "no baseline", "drift", "quiet"},
     began : Nat, baseline : [began : Nat, setting : AnySetting]]

Clean(r) == r.issues \subseteq Warning

\* The versions among S that a report without an error goes by.
Vouched(r, S) ==
    \E s, u \in S :
        LET raw == s.file[r.file]
            config == u.file[r.file]
        IN /\ Readable(raw) /\ raw.id = r.id /\ Faultless(S, raw, r.id)
           /\ Readable(config)
           /\ IF config.legacy THEN MergedErrors(raw) = {}
              ELSE MergedErrors(config) = {} /\ Loadable(S, config.id)

\* What the check of a file has read so far.
SeenRaw(d, S) == Readable(d.raw) /\ \E s \in S : s.file[Current(d.todo)] = d.raw
SeenPublic(d, S) == PublicErrors(d.raw, d.stored) = {} /\ (~d.stored => Away(S, d.raw.id))
SeenConfig(d, S) ==
    \E u \in S :
        /\ Readable(u.file[Current(d.todo)])
        /\ IF d.config = Gone THEN u.file[Current(d.todo)].legacy
           ELSE d.config = u.file[Current(d.todo)] /\ ~d.config.legacy
SeenInventory(d, S) == d.config # Gone => Loadable(S, d.config.id)
SeenLoading(d, S) ==
    /\ d.config # Gone /\ SeenConfig(d, S)
    /\ d.at \in {"key", "store"} => Parses(S, d.config.id)
    /\ d.at = "store" => Keyed(S, d.config.id)
SeenPrivate(d, S) ==
    /\ d.at # "rest" => d.stored
    /\ Clean(d) /\ d.stored /\ d.at # "metadata" => Fits(S, d.raw.id)
    /\ Clean(d) /\ d.stored /\ d.at \in {"master key", "rest"} => Kept(S, d.raw.id)

Examined(d, S) ==
    /\ SeenRaw(d, S)
    /\ d.at # "private" /\ Clean(d) => SeenPublic(d, S)
    /\ d.at \in LoadStep => SeenLoading(d, S)
    /\ d.at \in Judging =>
          SeenPrivate(d, S) /\ (Clean(d) => SeenConfig(d, S) /\ SeenInventory(d, S))

Witnessed(d, S) ==
    /\ d.at \in Examining => d.todo # {} /\ Examined(d, S)
    /\ \A r \in d.reports : Clean(r) => Vouched(r, S)

\* What is found of a content in the version w, step by step, and whether its
\* config can be made, where nothing changes meanwhile.
ThereIn(x, w) == w.vault[x.id].meta # "none"
ParsedIn(x, w) == w.vault[x.id].meta \notin {"none", "broken"}
LoadsIn(x, w) ==
    /\ Inventoried(x)
    /\ ThereIn(x, w) => ParsedIn(x, w) /\ w.vault[x.id].key /\ w.vault[x.id].store
PublicFindings(x, w) == PublicErrors(x, ThereIn(x, w)) \union When(x.inline, "inline")
LoadFindings(x, w) ==
    PublicFindings(x, w) \union
        (IF LoadsIn(x, w) THEN {} ELSE {IF Inventoried(x) THEN "config" ELSE "key not set"})
MetaFindings(x, w) ==
    LoadFindings(x, w) \union When(~ParsedIn(x, w), "private")
                       \union When(w.vault[x.id].meta = "wrong", "domain")
StoreFindings(x, w) == MetaFindings(x, w) \union When(~w.vault[x.id].store, "no store")
KeyFindings(x, w) == StoreFindings(x, w) \union When(~w.vault[x.id].key, "no master key")
AllFindings(x, w) ==
    IF ~ThereIn(x, w) THEN LoadFindings(x, w)
    ELSE IF ParsedIn(x, w) THEN KeyFindings(x, w) ELSE MetaFindings(x, w)
ConfigOf(x, w) == IF LoadsIn(x, w) THEN x ELSE Gone
InventoryOf(x, w) ==
    IF ~LoadsIn(x, w) THEN "none" ELSE IF ThereIn(x, w) THEN "private" ELSE "public"

\* The report on the file f of the version w in a setting.
Present(w) == {f \in Path : w.file[f] # Gone}
ReportOf(f, w, setting) ==
    LET x == w.file[f]
    IN IF Readable(x)
         THEN [file |-> f, id |-> x.id, issues |-> AllFindings(x, w) \union MergedErrors(x)
                             \union SecurityWarnings(ConfigOf(x, w), w.vault),
               config |-> ConfigOf(x, w), inventory |-> InventoryOf(x, w), setting |-> setting]
         ELSE [file |-> f, id |-> NoId, issues |-> {"parse"}, config |-> Gone,
               inventory |-> "none", setting |-> Anyhow]
ReportsOf(paths, w, setting) == {ReportOf(f, w, setting) : f \in paths}

ExpectedLoading(d, w) ==
    /\ d.issues = PublicFindings(d.raw, w)
    /\ d.at \in LoadStep => d.config = d.raw /\ Inventoried(d.raw)
    /\ d.at \in {"text", "key", "store"} => ThereIn(d.raw, w)
    /\ d.at \in {"key", "store"} => ParsedIn(d.raw, w)
    /\ d.at = "store" => w.vault[d.raw.id].key

ExpectedJudging(d, w) ==
    /\ d.config = ConfigOf(d.raw, w) /\ d.inventory = InventoryOf(d.raw, w)
    /\ d.at # "rest" => ThereIn(d.raw, w)
    /\ d.at \in {"secrets", "master key"} => ParsedIn(d.raw, w)
    /\ d.at = "metadata" => d.issues = LoadFindings(d.raw, w)
    /\ d.at = "secrets" => d.issues = MetaFindings(d.raw, w)
    /\ d.at = "master key" => d.issues = StoreFindings(d.raw, w)
    /\ d.at = "rest" => d.issues = AllFindings(d.raw, w)

Expected(d, w) ==
    /\ d.raw = w.file[Current(d.todo)] /\ Readable(d.raw)
    /\ d.at # "private" => (d.stored <=> ThereIn(d.raw, w))
    /\ d.at \notin Judging => d.inventory = "none"
    /\ d.at \in {"load"} \union LoadStep => ExpectedLoading(d, w)
    /\ d.at \in Judging => ExpectedJudging(d, w)

Steady(d, w) ==
    /\ d.todo \subseteq Present(w)
    /\ d.reports = ReportsOf(Present(w) \ d.todo, w, d.setting)
    /\ d.at = "public" => d.inventory = "none"
    /\ d.at \in Examining => Expected(d, w)

\* The doctor d that has seen the versions S; the k-th one is w.
Sound(d, S, w, k) ==
    /\ d.at = "off" => d.reports = {}
    /\ d.at \in {"pages", "index", "exit"} => d.todo = {}
    /\ d.drift = "drift" => d.began < k \/ d.baseline.began < k \/ d.baseline.setting # d.setting
    /\ d.at \in Busy => /\ d.began <= k /\ w \in S /\ Witnessed(d, S)
                        /\ d.began = k => Steady(d, w)

SoundSnapshot(is, w, k) ==
    is.is = "whole" =>
        is.began <= k /\ (is.began = k => is.reports = ReportsOf(Present(w), w, is.setting))

FilesOk ==
    /\ file \in [Path -> MaybeContent] /\ vault \in [Id -> Vault] /\ fileChanges \in Nat
    /\ snapshot \in [is : {"none", "torn", "whole"}, reports : SUBSET Report, began : Nat,
                     setting : AnySetting]
    /\ doctor \in [Process -> DoctorState] /\ DOMAIN seen = Process

DoctorInv ==
    /\ FilesOk
    /\ SoundSnapshot(snapshot, OnDisk, fileChanges)
    /\ \A p \in Process : Sound(doctor[p], seen[p], OnDisk, fileChanges)

-----------------------------------------------------------------------------
LEMMA WhenIs ==
  ASSUME NEW condition, NEW e
  PROVE  /\ When(condition, e) \subseteq {e}
         /\ e \notin Warning /\ When(condition, e) \subseteq Warning => ~condition
  BY DEF When

\* What the checks of a content find is among the issues.
LEMMA ErrorsAre ==
  ASSUME NEW content, NEW there
  PROVE  /\ PublicErrors(content, there) \subseteq Error
         /\ MergedErrors(content) \subseteq Error
         /\ PublicErrors(content, there) \subseteq Warning => PublicErrors(content, there) = {}
         /\ MergedErrors(content) \subseteq Warning => MergedErrors(content) = {}
  <1>1. /\ PublicErrors(content, there) \subseteq {"public", "not moved"}
        /\ MergedErrors(content) \subseteq {"merged"}
    BY WhenIs DEF PublicErrors, MergedErrors
  <1> QED
    BY <1>1 DEF Error, Warning

LEMMA NotRunOk ==
    /\ NotRun \in DoctorState
    /\ \A how \in DoctorOver : [NotRun EXCEPT !.at = how] \in DoctorState
                                 /\ [NotRun EXCEPT !.at = how].at = how
                                 /\ [NotRun EXCEPT !.at = how].drift = "unknown"
  BY DEF NotRun, DoctorState, MaybeContent, DoctorOver, AnySetting

LEMMA DoctorInitially == DoctorInit => DoctorInv
  <1> SUFFICES ASSUME DoctorInit PROVE DoctorInv
    OBVIOUS
  <1>1. FirstFiles \in [Path -> Content]
    BY DoctorAssumption DEF Path
  <1>2. FilesOk
    BY <1>1, NotRunOk, DoctorAssumption DEF DoctorInit, FilesOk, MaybeContent, NoSnapshot, AnySetting
  <1>3. \A p \in Process : Sound(doctor[p], seen[p], OnDisk, fileChanges)
    BY DEF DoctorInit, Sound, NotRun, Busy, Examining, Judging, LoadStep
  <1>4. SoundSnapshot(snapshot, OnDisk, fileChanges)
    BY DEF DoctorInit, SoundSnapshot, NoSnapshot
  <1> QED
    BY <1>2, <1>3, <1>4 DEF DoctorInv

\* One process goes on, and the files are as they were.
LEMMA DoctorGoes ==
  ASSUME DoctorInv, NEW p \in Process, NEW new \in DoctorState,
         doctor' = [doctor EXCEPT ![p] = new],
         UNCHANGED <<file, vault, fileChanges, snapshot>>,
         DOMAIN seen' = Process, \A q \in Process \ {p} : seen'[q] = seen[q],
         Sound(new, seen'[p], OnDisk, fileChanges)
  PROVE  DoctorInv'
  <1>1. OnDisk' = OnDisk
    BY DEF OnDisk
  <1>2. /\ doctor' \in [Process -> DoctorState] /\ doctor'[p] = new
        /\ \A q \in Process \ {p} : doctor'[q] = doctor[q]
    BY DEF DoctorInv, FilesOk
  <1>3. ASSUME NEW q \in Process PROVE Sound(doctor[q], seen[q], OnDisk, fileChanges)'
    <2>1. CASE q = p
      BY <1>1, <1>2, <2>1
    <2>2. CASE q # p
      BY <1>1, <1>2, <2>2 DEF DoctorInv
    <2> QED
      BY <2>1, <2>2
  <1>4. SoundSnapshot(snapshot, OnDisk, fileChanges)'
    BY <1>1 DEF DoctorInv
  <1>5. FilesOk'
    BY <1>2 DEF DoctorInv, FilesOk
  <1> QED
    BY <1>3, <1>4, <1>5 DEF DoctorInv

\* A process that ends has nothing left.
LEMMA DoctorEnds ==
  ASSUME DoctorInv, NEW p \in Process, NEW how \in DoctorOver,
         doctor' = [doctor EXCEPT ![p] = [NotRun EXCEPT !.at = how]],
         UNCHANGED <<file, vault, fileChanges, snapshot>>,
         DOMAIN seen' = Process, \A q \in Process \ {p} : seen'[q] = seen[q]
  PROVE  DoctorInv'
  <1>1. PICK new : new = [NotRun EXCEPT !.at = how]
    OBVIOUS
  <1>2. new \in DoctorState /\ new.at = how /\ new.drift = "unknown"
    BY <1>1, NotRunOk
  <1>3. Sound(new, seen'[p], OnDisk, fileChanges)
    BY <1>2 DEF Sound, DoctorOver, Busy, Examining, Judging, LoadStep
  <1> QED
    BY <1>1, <1>2, <1>3, DoctorGoes

\* What was to be seen stays so.
LEMMA MoreDisks ==
  ASSUME NEW S, NEW T, S \subseteq T, NEW i
  PROVE  /\ Away(S, i) => Away(T, i)
         /\ Parses(S, i) => Parses(T, i)
         /\ Fits(S, i) => Fits(T, i)
         /\ Keyed(S, i) => Keyed(T, i)
         /\ Kept(S, i) => Kept(T, i)
         /\ Loadable(S, i) => Loadable(T, i)
         /\ \A content : Faultless(S, content, i) => Faultless(T, content, i)
  BY DEF Away, Parses, Fits, Keyed, Kept, Loadable, Faultless

LEMMA MoreWitnesses ==
  ASSUME NEW d, NEW S, NEW T, S \subseteq T, Witnessed(d, S) PROVE Witnessed(d, T)
  <1>1. /\ SeenRaw(d, S) => SeenRaw(d, T)
        /\ SeenConfig(d, S) => SeenConfig(d, T)
    BY DEF SeenRaw, SeenConfig
  <1>2. SeenPublic(d, S) => SeenPublic(d, T)
    BY MoreDisks DEF SeenPublic
  <1>3. SeenInventory(d, S) => SeenInventory(d, T)
    BY MoreDisks DEF SeenInventory
  <1>4. SeenLoading(d, S) => SeenLoading(d, T)
    BY <1>1, MoreDisks DEF SeenLoading
  <1>5. SeenPrivate(d, S) => SeenPrivate(d, T)
    <2>1. Fits(S, d.raw.id) => Fits(T, d.raw.id)
      BY MoreDisks
    <2>2. Kept(S, d.raw.id) => Kept(T, d.raw.id)
      BY MoreDisks
    <2> QED
      BY <2>1, <2>2 DEF SeenPrivate
  <1>6. Examined(d, S) => Examined(d, T)
    BY <1>1, <1>2, <1>3, <1>4, <1>5 DEF Examined
  <1>7. ASSUME NEW r, Vouched(r, S) PROVE Vouched(r, T)
    <2>1. PICK s \in S, u \in S :
            /\ Readable(s.file[r.file]) /\ s.file[r.file].id = r.id
            /\ Faultless(S, s.file[r.file], r.id) /\ Readable(u.file[r.file])
            /\ IF u.file[r.file].legacy THEN MergedErrors(s.file[r.file]) = {}
               ELSE MergedErrors(u.file[r.file]) = {} /\ Loadable(S, u.file[r.file].id)
      BY <1>7 DEF Vouched
    <2>2. Faultless(T, s.file[r.file], r.id)
      BY <2>1, MoreDisks
    <2>3. Loadable(S, u.file[r.file].id) => Loadable(T, u.file[r.file].id)
      BY MoreDisks
    <2> QED
      BY <2>1, <2>2, <2>3 DEF Vouched
  <1> QED
    BY <1>6, <1>7 DEF Witnessed

LEMMA ChangeKeeps ==
  ASSUME DoctorInv, Changed,
         file' \in [Path -> MaybeContent], vault' \in [Id -> Vault]
  PROVE  DoctorInv'
  <1>1. /\ fileChanges \in Nat /\ fileChanges' = fileChanges + 1 /\ UNCHANGED <<snapshot, doctor>>
        /\ seen' = [p \in Process |-> IF p \in Alive THEN seen[p] \union {OnDisk'} ELSE seen[p]]
    BY DEF DoctorInv, FilesOk, Changed
  <1>2. FilesOk'
    BY <1>1 DEF DoctorInv, FilesOk
  <1>3. SoundSnapshot(snapshot, OnDisk, fileChanges)'
    <2>1. snapshot.began \in Nat
      BY DEF DoctorInv, FilesOk
    <2>2. snapshot.is = "whole" => snapshot.began < fileChanges'
      BY <1>1, <2>1 DEF DoctorInv, SoundSnapshot
    <2> QED
      BY <1>1, <2>1, <2>2 DEF SoundSnapshot
  <1>4. ASSUME NEW p \in Process PROVE Sound(doctor[p], seen[p], OnDisk, fileChanges)'
    <2>1. /\ Sound(doctor[p], seen[p], OnDisk, fileChanges)
          /\ doctor[p] \in DoctorState /\ doctor[p].began \in Nat /\ doctor[p].baseline.began \in Nat
      BY DEF DoctorInv, FilesOk, DoctorState
    <2>2. CASE doctor[p].at \in Busy
      <3>1. seen'[p] = seen[p] \union {OnDisk'}
        BY <1>1, <2>2 DEF Alive, Busy, Examining, Judging, LoadStep, DoctorOver
      <3>2. Witnessed(doctor[p], seen'[p])
        BY <2>1, <2>2, <3>1, MoreWitnesses DEF Sound
      <3>3. doctor[p].began < fileChanges'
        BY <1>1, <2>1, <2>2 DEF Sound
      <3> QED
        BY <1>1, <2>1, <3>1, <3>2, <3>3 DEF Sound
    <2>3. CASE doctor[p].at \notin Busy
      BY <1>1, <2>1, <2>3 DEF Sound
    <2> QED
      BY <2>2, <2>3
  <1> QED
    BY <1>2, <1>3, <1>4 DEF DoctorInv

LEMMA BeginKeeps ==
  ASSUME DoctorInv, NEW p \in Process, NEW setting \in RunSetting, BeginDoctor(p, setting)
  PROVE  DoctorInv'
  <1>1. PICK found \in SUBSET Path : found = {f \in Path : file[f] # Gone}
    OBVIOUS
  <1>2. PICK new : new = [NotRun EXCEPT !.at = "public", !.setting = setting,
                                         !.began = fileChanges, !.todo = found]
    OBVIOUS
  <1>3. /\ doctor' = [doctor EXCEPT ![p] = new] /\ seen' = [seen EXCEPT ![p] = {OnDisk}]
        /\ UNCHANGED <<file, vault, fileChanges, snapshot>>
    BY <1>1, <1>2 DEF BeginDoctor, Project
  <1>4. /\ new \in DoctorState /\ new.at = "public" /\ new.began = fileChanges
        /\ new.todo = found /\ new.reports = {} /\ new.drift = "unknown"
        /\ new.inventory = "none"
    BY <1>1, <1>2 DEF NotRun, DoctorState, MaybeContent, AnySetting, DoctorInv, FilesOk, Busy
  <1>5. /\ DOMAIN seen' = Process /\ seen'[p] = {OnDisk}
        /\ \A q \in Process \ {p} : seen'[q] = seen[q]
    BY <1>3 DEF DoctorInv, FilesOk
  <1>6. found = Present(OnDisk)
    BY <1>1 DEF Present, OnDisk
  <1>7. Witnessed(new, seen'[p]) /\ Steady(new, OnDisk)
    BY <1>4, <1>6 DEF Witnessed, Steady, ReportsOf, Examining, Judging, LoadStep
  <1>8. Sound(new, seen'[p], OnDisk, fileChanges)
    BY <1>4, <1>5, <1>7 DEF Sound, DoctorInv, FilesOk
  <1> QED
    BY <1>3, <1>4, <1>5, <1>8, DoctorGoes

\* What is known of a process that is checking a file.
AtWork(p) ==
    /\ doctor[p] \in DoctorState /\ Sound(doctor[p], seen[p], OnDisk, fileChanges)
    /\ OnDisk \in seen[p] /\ Witnessed(doctor[p], seen[p])
    /\ doctor[p].began \in Nat /\ doctor[p].began <= fileChanges
    /\ doctor[p].began = fileChanges => Steady(doctor[p], OnDisk)
    /\ doctor[p].todo # {}
    /\ Current(doctor[p].todo) \in doctor[p].todo /\ Current(doctor[p].todo) \in Path
    /\ file[Current(doctor[p].todo)] \in MaybeContent
    /\ OnDisk.file = file /\ OnDisk.vault = vault

LEMMA AtFile ==
  ASSUME DoctorInv, NEW p \in Process,
         \/ doctor[p].at = "public" /\ doctor[p].todo # {}
         \/ doctor[p].at \in Examining
  PROVE  AtWork(p)
  <1>1. doctor[p] \in DoctorState /\ Sound(doctor[p], seen[p], OnDisk, fileChanges)
    BY DEF DoctorInv, FilesOk
  <1>2. doctor[p].todo \subseteq Path /\ doctor[p].began \in Nat
    BY <1>1 DEF DoctorState
  <1>3. Path \subseteq Nat
    BY DoctorAssumption DEF Path
  <1>4. PICK T : T = doctor[p].todo
    OBVIOUS
  <1>5. T # {}
    BY <1>1, <1>4 DEF Sound, Busy, Witnessed
  <1>6. Current(T) \in T
    BY <1>2, <1>3, <1>4, <1>5, LeastExists DEF Current
  <1> QED
    BY <1>1, <1>2, <1>4, <1>5, <1>6 DEF AtWork, Sound, Busy, DoctorInv, FilesOk, OnDisk

\* The check of a file goes on: what it has read since is seen and expected.
GoesAs(new, p) ==
    /\ new \in DoctorState /\ new.at \in Examining
    /\ new.todo = doctor[p].todo /\ new.reports = doctor[p].reports
    /\ new.setting = doctor[p].setting /\ new.began = doctor[p].began
    /\ new.drift = doctor[p].drift /\ new.baseline = doctor[p].baseline

LEMMA ExaminationKeeps ==
  ASSUME DoctorInv, NEW p \in Process, AtWork(p), NEW new, GoesAs(new, p),
         doctor' = [doctor EXCEPT ![p] = new], UNCHANGED <<Project, snapshot, seen>>,
         Examined(new, seen[p]),
         doctor[p].began = fileChanges => Expected(new, OnDisk)
  PROVE  DoctorInv'
  <1>1. new \in DoctorState /\ UNCHANGED <<file, vault, fileChanges, snapshot, seen>>
    BY DEF GoesAs, Project
  <1>2. Witnessed(new, seen[p])
    BY DEF GoesAs, AtWork, Witnessed
  <1>3. new.at \notin {"off", "public", "pages", "index", "exit"} /\ new.at \in Busy
    BY DEF GoesAs, Examining, Judging, LoadStep, Busy
  <1>4. doctor[p].began = fileChanges => Steady(new, OnDisk)
    BY <1>3 DEF GoesAs, AtWork, Steady
  <1>5. Sound(new, seen[p], OnDisk, fileChanges)
    BY <1>2, <1>3, <1>4 DEF GoesAs, AtWork, Sound
  <1>6. DOMAIN seen = Process
    BY DEF DoctorInv, FilesOk
  <1> QED
    BY <1>1, <1>5, <1>6, DoctorGoes

\* The check of a file ends in its report.
LEMMA ReportKeeps ==
  ASSUME DoctorInv, NEW p \in Process, AtWork(p),
         NEW r \in Report, NextPath(p, r), UNCHANGED <<Project, snapshot, seen>>,
         Clean(r) => Vouched(r, seen[p]),
         doctor[p].began = fileChanges =>
            r = ReportOf(Current(doctor[p].todo), OnDisk, doctor[p].setting)
            /\ Current(doctor[p].todo) \in Present(OnDisk)
  PROVE  DoctorInv'
  <1> DEFINE d == doctor[p]
             c == Current(d.todo)
  <1>1. /\ d \in DoctorState /\ Sound(d, seen[p], OnDisk, fileChanges)
        /\ OnDisk \in seen[p] /\ Witnessed(d, seen[p])
        /\ d.began \in Nat /\ d.began <= fileChanges
        /\ d.began = fileChanges => Steady(d, OnDisk)
        /\ c \in d.todo /\ c \in Path
    BY DEF AtWork
  <1>2. PICK new : new = [d EXCEPT !.at = "public", !.todo = d.todo \ {c},
                            !.raw = Gone, !.stored = FALSE, !.config = Gone, !.inventory = "none",
                            !.issues = {}, !.reports = d.reports \union {r}]
    OBVIOUS
  <1>3. /\ doctor' = [doctor EXCEPT ![p] = new]
        /\ UNCHANGED <<file, vault, fileChanges, snapshot, seen>>
    BY <1>2 DEF NextPath, Project, DoctorInv, FilesOk, DoctorState
  <1>4. /\ new \in DoctorState /\ new.at = "public" /\ new.todo = d.todo \ {c}
        /\ new.reports = d.reports \union {r} /\ new.setting = d.setting
        /\ new.inventory = "none"
        /\ new.began = d.began /\ new.drift = d.drift /\ new.baseline = d.baseline
    BY <1>1, <1>2 DEF DoctorState, MaybeContent, Busy
  <1> HIDE DEF d, c
  <1>5. new.at \notin Examining \union {"off", "pages", "index", "exit"} /\ new.at \in Busy
    BY <1>4 DEF Examining, Judging, LoadStep, Busy
  <1>6. Witnessed(new, seen[p])
    BY <1>1, <1>4, <1>5 DEF Witnessed
  <1>7. ASSUME d.began = fileChanges PROVE Steady(new, OnDisk)
    <2>1. r = ReportOf(c, OnDisk, d.setting) /\ c \in Present(OnDisk)
      BY <1>7 DEF c, d
    <2>2. Present(OnDisk) \ new.todo = (Present(OnDisk) \ d.todo) \union {c}
      BY <1>1, <1>4, <2>1
    <2>3. new.reports = ReportsOf(Present(OnDisk) \ new.todo, OnDisk, d.setting)
      BY <1>1, <1>4, <1>7, <2>1, <2>2 DEF Steady, ReportsOf
    <2> QED
      BY <1>1, <1>4, <1>5, <1>7, <2>3 DEF Steady
  <1>8. Sound(new, seen[p], OnDisk, fileChanges)
    BY <1>1, <1>4, <1>5, <1>6, <1>7 DEF Sound
  <1>9. DOMAIN seen = Process
    BY DEF DoctorInv, FilesOk
  <1> QED
    BY <1>3, <1>4, <1>8, <1>9, DoctorGoes

LEMMA ReadPublicKeeps ==
  ASSUME DoctorInv, NEW p \in Process, ReadPublicFile(p) PROVE DoctorInv'
  <1> DEFINE d == doctor[p]
             c == Current(d.todo)
  <1>1. d.at = "public" /\ d.todo # {} /\ UNCHANGED <<Project, snapshot, seen>>
    BY DEF ReadPublicFile
  <1>2. AtWork(p)
    BY <1>1, AtFile
  <1>3. /\ d \in DoctorState /\ c \in Path /\ c \in d.todo /\ file[c] \in MaybeContent
        /\ OnDisk \in seen[p] /\ OnDisk.file = file
        /\ d.began = fileChanges => Steady(d, OnDisk)
    BY <1>2 DEF AtWork
  <1>4. CASE Readable(file[c])
    <2>1. PICK new : new = [d EXCEPT !.at = "private", !.raw = file[c]]
      OBVIOUS
    <2>2. doctor' = [doctor EXCEPT ![p] = new]
      BY <1>4, <2>1 DEF ReadPublicFile, DoctorInv, FilesOk, DoctorState
    <2>3. /\ GoesAs(new, p) /\ new.at = "private" /\ new.raw = file[c]
          /\ new.inventory = d.inventory /\ new.todo = d.todo
      BY <1>3, <2>1 DEF GoesAs, DoctorState, Busy, Examining
    <2> HIDE DEF d, c
    <2>4. new.at \notin LoadStep \union Judging \union {"load"}
      BY <2>3 DEF LoadStep, Judging
    <2>5. Examined(new, seen[p])
      BY <1>3, <1>4, <2>3, <2>4 DEF Examined, SeenRaw, c
    <2>6. d.began = fileChanges => Expected(new, OnDisk)
      BY <1>1, <1>3, <1>4, <2>3, <2>4 DEF Steady, Expected, c
    <2> QED
      BY <1>1, <1>2, <2>2, <2>3, <2>5, <2>6, ExaminationKeeps DEF d
  <1>5. CASE ~Readable(file[c])
    <2>1. PICK r : r = [file |-> c, id |-> NoId, issues |-> {"parse"}, config |-> Gone,
                        inventory |-> "none", setting |-> Anyhow]
      OBVIOUS
    <2>2. NextPath(p, r)
      BY <1>5, <2>1 DEF ReadPublicFile
    <2>3. r \in Report /\ ~Clean(r)
      BY <1>3, <2>1 DEF Report, Error, Warning, Clean
    <2>4. d.began = fileChanges => r = ReportOf(c, OnDisk, d.setting) /\ c \in Present(OnDisk)
      BY <1>3, <1>5, <2>1 DEF ReportOf, Steady
    <2> QED
      BY <1>1, <1>2, <2>2, <2>3, <2>4, ReportKeeps
  <1> QED
    BY <1>4, <1>5

LEMMA CheckPublicKeeps ==
  ASSUME DoctorInv, NEW p \in Process, CheckPublic(p) PROVE DoctorInv'
  <1> DEFINE d == doctor[p]
  <1>1. d.at = "private" /\ UNCHANGED <<Project, snapshot, seen>>
    BY DEF CheckPublic
  <1>2. AtWork(p)
    BY <1>1, AtFile DEF Examining
  <1>3. /\ d \in DoctorState /\ OnDisk \in seen[p] /\ OnDisk.vault = vault
        /\ SeenRaw(d, seen[p])
        /\ d.began = fileChanges => Expected(d, OnDisk)
    BY <1>1, <1>2 DEF AtWork, Witnessed, Examined, Steady, Examining
  <1>4. PICK there \in BOOLEAN : there = (vault[d.raw.id].meta # "none")
    OBVIOUS
  <1>5. PICK issues : issues = PublicErrors(d.raw, there) \union When(d.raw.inline, "inline")
    OBVIOUS
  <1>6. issues \subseteq Issue /\ (issues \subseteq Warning => PublicErrors(d.raw, there) = {})
    <2>1. When(d.raw.inline, "inline") \subseteq {"inline"}
      BY WhenIs
    <2>2. PublicErrors(d.raw, there) \subseteq Error
      BY ErrorsAre
    <2>3. issues \subseteq Warning => PublicErrors(d.raw, there) \subseteq Warning
      BY <1>5
    <2> QED
      BY <1>5, <2>1, <2>2, <2>3, ErrorsAre DEF Issue, Warning
  <1>7. PICK new : new = [d EXCEPT !.at = "load", !.stored = there, !.issues = issues]
    OBVIOUS
  <1>8. doctor' = [doctor EXCEPT ![p] = new]
    BY <1>4, <1>5, <1>7 DEF CheckPublic, DoctorInv, FilesOk, DoctorState
  <1>9. /\ GoesAs(new, p) /\ new.at = "load" /\ new.raw = d.raw /\ new.stored = there
        /\ new.inventory = d.inventory /\ new.todo = d.todo /\ new.issues = issues
    BY <1>3, <1>6, <1>7 DEF GoesAs, DoctorState, Busy, Examining
  <1> HIDE DEF d
  <1>10. new.at \notin LoadStep \union Judging \union {"private"}
    BY <1>9 DEF LoadStep, Judging
  <1>11. Examined(new, seen[p])
    <2>1. SeenRaw(new, seen[p])
      BY <1>3, <1>9 DEF SeenRaw
    <2>2. ~there => Away(seen[p], d.raw.id)
      BY <1>3, <1>4 DEF Away
    <2>3. Clean(new) => SeenPublic(new, seen[p])
      BY <1>6, <1>9, <2>2 DEF Clean, SeenPublic
    <2> QED
      BY <1>10, <2>1, <2>3 DEF Examined
  <1>12. ASSUME d.began = fileChanges PROVE Expected(new, OnDisk)
    <2>1. Expected(d, OnDisk) /\ d.inventory = "none"
      BY <1>1, <1>3, <1>12 DEF Expected, Judging
    <2>2. there = ThereIn(d.raw, OnDisk)
      BY <1>3, <1>4 DEF ThereIn
    <2>3. issues = PublicFindings(d.raw, OnDisk)
      BY <1>5, <2>2 DEF PublicFindings
    <2>4. ExpectedLoading(new, OnDisk)
      BY <1>9, <1>10, <2>3 DEF ExpectedLoading, LoadStep
    <2> QED
      BY <1>9, <1>10, <2>1, <2>2, <2>4 DEF Expected
  <1> QED
    BY <1>1, <1>2, <1>8, <1>9, <1>11, <1>12, ExaminationKeeps DEF d

\* What is known of a load.
LEMMA AtLoad ==
  ASSUME DoctorInv, NEW p \in Process, doctor[p].at \in {"load"} \union LoadStep
  PROVE  /\ AtWork(p) /\ doctor[p] \in DoctorState /\ OnDisk \in seen[p]
         /\ OnDisk.file = file /\ OnDisk.vault = vault
         /\ SeenRaw(doctor[p], seen[p])
         /\ Clean(doctor[p]) => SeenPublic(doctor[p], seen[p])
         /\ doctor[p].at \in LoadStep => SeenLoading(doctor[p], seen[p])
         /\ doctor[p].began = fileChanges =>
               /\ doctor[p].raw = file[Current(doctor[p].todo)] /\ Readable(doctor[p].raw)
               /\ doctor[p].stored <=> ThereIn(doctor[p].raw, OnDisk)
               /\ doctor[p].inventory = "none" /\ ExpectedLoading(doctor[p], OnDisk)
               /\ Expected(doctor[p], OnDisk)
  <1> DEFINE d == doctor[p]
  <1>1. d.at \in Examining /\ d.at # "private" /\ d.at \notin Judging /\ d.at # "public"
    BY DEF Examining, LoadStep, Judging
  <1>2. AtWork(p)
    BY <1>1, AtFile
  <1>3. Examined(d, seen[p]) /\ (d.began = fileChanges => Expected(d, OnDisk))
    BY <1>1, <1>2 DEF AtWork, Witnessed, Steady
  <1> QED
    BY <1>1, <1>2, <1>3 DEF AtWork, Examined, Expected

\* A load that throws leaves its issue.
LEMMA NotLoadedKeeps ==
  ASSUME DoctorInv, NEW p \in Process, doctor[p].at \in {"load"} \union LoadStep,
         NEW issue \in {"config", "key not set"}, NotLoaded(p, issue),
         UNCHANGED <<Project, snapshot, seen>>,
         issue = "key not set" =>
            LET content == file[Current(doctor[p].todo)] IN Readable(content) /\ content.legacy,
         doctor[p].began = fileChanges =>
            /\ ~LoadsIn(doctor[p].raw, OnDisk)
            /\ issue = IF Inventoried(doctor[p].raw) THEN "config" ELSE "key not set"
  PROVE  DoctorInv'
  <1> DEFINE d == doctor[p]
             c == Current(d.todo)
  <1>1. /\ AtWork(p) /\ d \in DoctorState /\ OnDisk \in seen[p] /\ OnDisk.file = file
        /\ SeenRaw(d, seen[p]) /\ (Clean(d) => SeenPublic(d, seen[p]))
        /\ d.began = fileChanges => /\ d.raw = file[c] /\ Readable(d.raw)
                                    /\ d.stored <=> ThereIn(d.raw, OnDisk)
                                    /\ d.inventory = "none" /\ ExpectedLoading(d, OnDisk)
    BY AtLoad
  <1>2. PICK at \in {"metadata", "rest"} : at = AfterLoad(p) /\ (at = "metadata" <=> d.stored)
    BY DEF AfterLoad
  <1>3. PICK new : new = [d EXCEPT !.at = at, !.config = Gone, !.issues = d.issues \union {issue}]
    OBVIOUS
  <1>4. doctor' = [doctor EXCEPT ![p] = new]
    BY <1>2, <1>3 DEF NotLoaded, DoctorInv, FilesOk, DoctorState
  <1>5. /\ GoesAs(new, p) /\ new.at = at /\ new.raw = d.raw /\ new.stored = d.stored
        /\ new.config = Gone /\ new.inventory = d.inventory /\ new.todo = d.todo
        /\ new.issues = d.issues \union {issue}
    <2>1. d.issues \union {issue} \in SUBSET Issue
      BY <1>1 DEF DoctorState, Issue, Warning, Error
    <2>2. at \in Examining
      BY DEF Examining, Judging
    <2> QED
      BY <1>1, <1>3, <2>1, <2>2 DEF GoesAs, DoctorState, Busy
  <1> HIDE DEF d, c
  <1>6. new.at \in Judging /\ new.at \notin LoadStep
    BY <1>5 DEF LoadStep, Judging
  <1>7. Examined(new, seen[p])
    <2>1. SeenRaw(new, seen[p])
      BY <1>1, <1>5 DEF SeenRaw
    <2>2. Clean(new) => Clean(d) /\ issue = "key not set"
      BY <1>5 DEF Clean, Warning
    <2>3. Clean(new) => SeenPublic(new, seen[p])
      BY <1>1, <1>5, <2>2 DEF SeenPublic
    <2>4. Clean(new) => SeenConfig(new, seen[p]) /\ SeenInventory(new, seen[p])
      BY <1>1, <1>5, <2>2 DEF SeenConfig, SeenInventory, c, d
    <2>5. SeenPrivate(new, seen[p])
      BY <1>2, <1>5, <2>2 DEF SeenPrivate
    <2> QED
      BY <1>6, <2>1, <2>3, <2>4, <2>5 DEF Examined
  <1>8. ASSUME d.began = fileChanges PROVE Expected(new, OnDisk)
    <2>1. /\ d.issues = PublicFindings(d.raw, OnDisk) /\ ~LoadsIn(d.raw, OnDisk)
          /\ issue = IF Inventoried(d.raw) THEN "config" ELSE "key not set"
      BY <1>1, <1>8 DEF ExpectedLoading, d
    <2>2. new.issues = LoadFindings(d.raw, OnDisk)
      BY <1>5, <2>1 DEF LoadFindings
    <2>3. /\ new.config = ConfigOf(d.raw, OnDisk) /\ new.inventory = InventoryOf(d.raw, OnDisk)
      BY <1>1, <1>5, <1>8, <2>1 DEF ConfigOf, InventoryOf
    <2>4. at = "rest" => LoadFindings(d.raw, OnDisk) = AllFindings(d.raw, OnDisk)
      BY <1>1, <1>2, <1>8 DEF AllFindings
    <2>5. ExpectedJudging(new, OnDisk)
      BY <1>1, <1>2, <1>5, <1>8, <2>2, <2>3, <2>4 DEF ExpectedJudging
    <2> QED
      BY <1>1, <1>5, <1>6, <1>8, <2>5 DEF Expected, Judging, c
  <1> QED
    BY <1>1, <1>4, <1>5, <1>7, <1>8, ExaminationKeeps DEF d

\* A load that comes to its end.
LEMMA LoadedKeeps ==
  ASSUME DoctorInv, NEW p \in Process, doctor[p].at \in LoadStep,
         NEW from \in {"public", "private"},
         doctor' = [doctor EXCEPT ![p].at = AfterLoad(p), ![p].inventory = from],
         UNCHANGED <<Project, snapshot, seen>>,
         Loadable(seen[p], doctor[p].config.id),
         doctor[p].began = fileChanges =>
            LoadsIn(doctor[p].raw, OnDisk) /\ from = InventoryOf(doctor[p].raw, OnDisk)
  PROVE  DoctorInv'
  <1> DEFINE d == doctor[p]
             c == Current(d.todo)
  <1>1. /\ AtWork(p) /\ d \in DoctorState /\ OnDisk \in seen[p] /\ OnDisk.file = file
        /\ SeenRaw(d, seen[p]) /\ (Clean(d) => SeenPublic(d, seen[p]))
        /\ SeenLoading(d, seen[p])
        /\ d.began = fileChanges => /\ d.raw = file[c] /\ Readable(d.raw)
                                    /\ d.stored <=> ThereIn(d.raw, OnDisk)
                                    /\ ExpectedLoading(d, OnDisk)
    BY AtLoad
  <1>2. PICK at \in {"metadata", "rest"} : at = AfterLoad(p) /\ (at = "metadata" <=> d.stored)
    BY DEF AfterLoad
  <1>3. PICK new : new = [d EXCEPT !.at = at, !.inventory = from]
    OBVIOUS
  <1>4. doctor' = [doctor EXCEPT ![p] = new]
    BY <1>2, <1>3 DEF DoctorInv, FilesOk, DoctorState
  <1>5. /\ GoesAs(new, p) /\ new.at = at /\ new.raw = d.raw /\ new.stored = d.stored
        /\ new.config = d.config /\ new.inventory = from /\ new.todo = d.todo
        /\ new.issues = d.issues
    <2>1. at \in Examining
      BY DEF Examining, Judging
    <2> QED
      BY <1>1, <1>3, <2>1 DEF GoesAs, DoctorState, Busy
  <1> HIDE DEF d, c
  <1>6. new.at \in Judging /\ new.at \notin LoadStep
    BY <1>5 DEF LoadStep, Judging
  <1>7. Examined(new, seen[p])
    <2>1. SeenRaw(new, seen[p])
      BY <1>1, <1>5 DEF SeenRaw
    <2>2. Clean(new) => SeenPublic(new, seen[p])
      BY <1>1, <1>5 DEF SeenPublic, Clean
    <2>3. SeenConfig(new, seen[p])
      BY <1>1, <1>5 DEF SeenLoading, SeenConfig
    <2>4. SeenInventory(new, seen[p])
      BY <1>5 DEF SeenInventory, d
    <2>5. SeenPrivate(new, seen[p])
      BY <1>2, <1>5 DEF SeenPrivate
    <2> QED
      BY <1>6, <2>1, <2>2, <2>3, <2>4, <2>5 DEF Examined
  <1>8. ASSUME d.began = fileChanges PROVE Expected(new, OnDisk)
    <2>1. /\ d.issues = PublicFindings(d.raw, OnDisk) /\ d.config = d.raw
          /\ LoadsIn(d.raw, OnDisk) /\ from = InventoryOf(d.raw, OnDisk)
      BY <1>1, <1>8 DEF ExpectedLoading, d
    <2>2. new.issues = LoadFindings(d.raw, OnDisk)
      BY <1>5, <2>1 DEF LoadFindings
    <2>3. /\ new.config = ConfigOf(d.raw, OnDisk) /\ new.inventory = InventoryOf(d.raw, OnDisk)
      BY <1>5, <2>1 DEF ConfigOf
    <2>4. at = "rest" => LoadFindings(d.raw, OnDisk) = AllFindings(d.raw, OnDisk)
      BY <1>1, <1>2, <1>8 DEF AllFindings
    <2>5. ExpectedJudging(new, OnDisk)
      BY <1>1, <1>2, <1>5, <1>8, <2>2, <2>3, <2>4 DEF ExpectedJudging
    <2> QED
      BY <1>1, <1>5, <1>6, <1>8, <2>5 DEF Expected, Judging, c
  <1> QED
    BY <1>1, <1>4, <1>5, <1>7, <1>8, ExaminationKeeps DEF d

\* A load goes on to its next step.
LEMMA LoadGoesOn ==
  ASSUME DoctorInv, NEW p \in Process, doctor[p].at \in {"load"} \union LoadStep,
         NEW next \in LoadStep, NEW config \in Content,
         doctor' = [doctor EXCEPT ![p] = [doctor[p] EXCEPT !.at = next, !.config = config]],
         UNCHANGED <<Project, snapshot, seen>>,
         SeenLoading([doctor[p] EXCEPT !.at = next, !.config = config], seen[p]),
         doctor[p].began = fileChanges =>
            ExpectedLoading([doctor[p] EXCEPT !.at = next, !.config = config], OnDisk)
  PROVE  DoctorInv'
  <1> DEFINE d == doctor[p]
             c == Current(d.todo)
  <1>1. /\ AtWork(p) /\ d \in DoctorState /\ OnDisk \in seen[p] /\ OnDisk.file = file
        /\ SeenRaw(d, seen[p]) /\ (Clean(d) => SeenPublic(d, seen[p]))
        /\ d.began = fileChanges => /\ d.raw = file[c] /\ Readable(d.raw)
                                    /\ d.stored <=> ThereIn(d.raw, OnDisk)
                                    /\ d.inventory = "none"
    BY AtLoad
  <1>2. PICK new : new = [d EXCEPT !.at = next, !.config = config]
    OBVIOUS
  <1>3. /\ GoesAs(new, p) /\ new.at = next /\ new.raw = d.raw /\ new.stored = d.stored
        /\ new.inventory = d.inventory /\ new.todo = d.todo /\ new.issues = d.issues
    <2>1. next \in Examining
      BY DEF Examining
    <2> QED
      BY <1>1, <1>2, <2>1 DEF GoesAs, DoctorState, Busy
  <1>4. doctor' = [doctor EXCEPT ![p] = new] /\ SeenLoading(new, seen[p])
    BY <1>2
  <1>5. d.began = fileChanges => ExpectedLoading(new, OnDisk)
    BY <1>2
  <1> HIDE DEF d, c
  <1>6. new.at \in LoadStep /\ new.at \notin Judging /\ new.at # "private"
    BY <1>3 DEF LoadStep, Judging
  <1>7. Examined(new, seen[p])
    BY <1>1, <1>3, <1>4, <1>6 DEF Examined, SeenRaw, SeenPublic, Clean
  <1>8. d.began = fileChanges => Expected(new, OnDisk)
    BY <1>1, <1>3, <1>5, <1>6 DEF Expected, c
  <1> QED
    BY <1>1, <1>3, <1>4, <1>7, <1>8, ExaminationKeeps DEF d

LEMMA LoadConfigKeeps ==
  ASSUME DoctorInv, NEW p \in Process, LoadConfig(p) PROVE DoctorInv'
  <1> DEFINE d == doctor[p]
             c == Current(d.todo)
             content == file[c]
  <1>1. d.at = "load" /\ UNCHANGED <<Project, snapshot, seen>>
    BY DEF LoadConfig
  <1>2. /\ d \in DoctorState /\ OnDisk \in seen[p] /\ OnDisk.file = file
        /\ content \in MaybeContent
        /\ d.began = fileChanges => d.raw = content /\ Readable(d.raw) /\ ExpectedLoading(d, OnDisk)
    BY <1>1, AtLoad DEF AtWork
  <1>3. CASE Inventoried(content)
    <2>1. content \in Content /\ content # Gone /\ Readable(content) /\ ~content.legacy
      BY <1>2, <1>3 DEF Inventoried, Readable, MaybeContent
    <2>2. PICK new : new = [d EXCEPT !.at = "exists", !.config = content]
      OBVIOUS
    <2>3. doctor' = [doctor EXCEPT ![p] = new]
      BY <1>3, <2>2 DEF LoadConfig, DoctorInv, FilesOk, DoctorState
    <2>4. /\ new.at = "exists" /\ new.config = content /\ new.todo = d.todo
          /\ new.issues = d.issues /\ new.raw = d.raw
      BY <1>2, <2>2 DEF DoctorState
    <2> HIDE DEF d, c
    <2>5. SeenLoading(new, seen[p])
      BY <1>2, <2>1, <2>4 DEF SeenLoading, SeenConfig, c
    <2>6. d.began = fileChanges => ExpectedLoading(new, OnDisk)
      BY <1>2, <1>3, <2>4 DEF ExpectedLoading
    <2>7. "exists" \in LoadStep
      BY DEF LoadStep
    <2> QED
      BY <1>1, <2>1, <2>2, <2>3, <2>5, <2>6, <2>7, LoadGoesOn DEF d
  <1>4. CASE ~Inventoried(content)
    <2>1. PICK issue \in {"config", "key not set"} :
             issue = IF Readable(content) THEN "key not set" ELSE "config"
      OBVIOUS
    <2>2. NotLoaded(p, issue)
      BY <1>4, <2>1 DEF LoadConfig
    <2>3. issue = "key not set" => Readable(content) /\ content.legacy
      BY <1>4, <2>1 DEF Inventoried
    <2>4. d.began = fileChanges =>
             /\ ~LoadsIn(d.raw, OnDisk)
             /\ issue = IF Inventoried(d.raw) THEN "config" ELSE "key not set"
      BY <1>2, <1>4, <2>1 DEF LoadsIn
    <2> QED
      BY <1>1, <2>2, <2>3, <2>4, NotLoadedKeeps
  <1> QED
    BY <1>3, <1>4

LEMMA LoadInventoryKeeps ==
  ASSUME DoctorInv, NEW p \in Process, LoadInventory(p) PROVE DoctorInv'
  <1> DEFINE d == doctor[p]
             i == d.config.id
             kept == vault[i]
             next == ReadVault(d.at, kept)
  <1>1. d.at \in LoadStep /\ UNCHANGED <<Project, snapshot, seen>>
    BY DEF LoadInventory, ReadNext
  <1>2. /\ d \in DoctorState /\ OnDisk \in seen[p] /\ OnDisk.vault = vault
        /\ SeenLoading(d, seen[p])
        /\ d.began = fileChanges => ExpectedLoading(d, OnDisk)
    BY <1>1, AtLoad
  <1>3. d.config \in Content /\ i \in Id /\ kept \in Vault
    BY <1>2, DoctorAssumption DEF SeenLoading, DoctorState, DoctorInv, FilesOk
  <1>4. d.began = fileChanges => d.config = d.raw /\ Inventoried(d.raw) /\ OnDisk.vault[d.raw.id] = kept
    BY <1>1, <1>2 DEF ExpectedLoading
  <1>5. CASE next = "throws"
    <2>1. NotLoaded(p, "config")
      BY <1>5 DEF LoadInventory, ReadNext
    <2>2. d.began = fileChanges => ~LoadsIn(d.raw, OnDisk)
      <3> SUFFICES ASSUME d.began = fileChanges, LoadsIn(d.raw, OnDisk) PROVE FALSE
        OBVIOUS
      <3>1. kept.meta # "none" => kept.meta # "broken" /\ kept.key /\ kept.store
        BY <1>4 DEF LoadsIn, ThereIn, ParsedIn
      <3>2. d.at # "exists" => kept.meta # "none"
        BY <1>1, <1>2, <1>4 DEF ExpectedLoading, LoadStep, ThereIn
      <3> QED
        BY <1>1, <1>5, <3>1, <3>2 DEF ReadVault, LoadStep
    <2> QED
      BY <1>1, <1>4, <2>1, <2>2, NotLoadedKeeps
  <1>6. CASE next = "loaded"
    <2>1. PICK from \in {"public", "private"} : from = IF d.at = "exists" THEN "public" ELSE "private"
      OBVIOUS
    <2>2. doctor' = [doctor EXCEPT ![p].at = AfterLoad(p), ![p].inventory = from]
      BY <1>6, <2>1 DEF LoadInventory, ReadNext
    <2>3. \/ d.at = "exists" /\ kept.meta = "none"
          \/ d.at = "store" /\ kept.store
      BY <1>1, <1>6 DEF ReadVault, LoadStep
    <2>4. Loadable(seen[p], i)
      BY <1>2, <2>3 DEF Loadable, Away, Kept, SeenLoading
    <2>5. d.began = fileChanges => LoadsIn(d.raw, OnDisk) /\ from = InventoryOf(d.raw, OnDisk)
      BY <1>2, <1>4, <2>1, <2>3 DEF ExpectedLoading, LoadsIn, ThereIn, ParsedIn, InventoryOf
    <2> QED
      BY <1>1, <2>2, <2>4, <2>5, LoadedKeeps
  <1>7. CASE next \notin {"throws", "loaded"}
    <2>1. /\ next \in LoadStep
          /\ \/ next = "text" /\ kept.meta # "none"
             \/ next = "key" /\ kept.meta \notin {"none", "broken"}
             \/ next = "store" /\ kept.key
          /\ next = "text" => d.at = "exists"
          /\ next = "key" => d.at = "text"
          /\ next = "store" => d.at = "key"
      BY <1>1, <1>7 DEF ReadVault, LoadStep
    <2>2. doctor' = [doctor EXCEPT ![p].at = next]
      BY <1>7 DEF LoadInventory, ReadNext
    <2>3. PICK new : new = [d EXCEPT !.at = next, !.config = d.config]
      OBVIOUS
    <2>4. doctor' = [doctor EXCEPT ![p] = new]
      BY <2>2, <2>3 DEF DoctorInv, FilesOk, DoctorState
    <2>5. /\ new.at = next /\ new.config = d.config /\ new.todo = d.todo
          /\ new.issues = d.issues /\ new.raw = d.raw
      BY <1>2, <2>3 DEF DoctorState
    <2>6. SeenLoading(new, seen[p])
      <3>1. next \in {"key", "store"} => Parses(seen[p], i)
        BY <1>2, <1>3, <2>1 DEF SeenLoading, Parses, Vault
      <3>2. next = "store" => Keyed(seen[p], i)
        BY <1>2, <2>1 DEF Keyed
      <3> QED
        BY <1>2, <2>5, <3>1, <3>2 DEF SeenLoading, SeenConfig
    <2>7. d.began = fileChanges => ExpectedLoading(new, OnDisk)
      BY <1>2, <1>4, <2>1, <2>5 DEF ExpectedLoading, ThereIn, ParsedIn
    <2> HIDE DEF d, next
    <2> QED
      BY <1>1, <1>3, <2>1, <2>3, <2>4, <2>6, <2>7, LoadGoesOn DEF d
  <1> QED
    BY <1>5, <1>6, <1>7

\* What is known of the check of a vault.
LEMMA AtVault ==
  ASSUME DoctorInv, NEW p \in Process, doctor[p].at \in Judging
  PROVE  /\ AtWork(p) /\ doctor[p] \in DoctorState /\ OnDisk \in seen[p]
         /\ OnDisk.file = file /\ OnDisk.vault = vault
         /\ SeenRaw(doctor[p], seen[p]) /\ SeenPrivate(doctor[p], seen[p])
         /\ Clean(doctor[p]) => /\ SeenPublic(doctor[p], seen[p])
                                /\ SeenConfig(doctor[p], seen[p])
                                /\ SeenInventory(doctor[p], seen[p])
         /\ doctor[p].began = fileChanges =>
               /\ doctor[p].raw = file[Current(doctor[p].todo)]
               /\ doctor[p].stored <=> ThereIn(doctor[p].raw, OnDisk)
               /\ ExpectedJudging(doctor[p], OnDisk)
         /\ Readable(doctor[p].raw) /\ doctor[p].raw \in Content /\ doctor[p].raw.id \in Id
         /\ vault[doctor[p].raw.id] \in Vault
  <1> DEFINE d == doctor[p]
  <1>1. d.at \in Examining /\ d.at # "private" /\ d.at \notin LoadStep
    BY DEF Examining, LoadStep, Judging
  <1>2. AtWork(p)
    BY <1>1, AtFile
  <1>3. Examined(d, seen[p]) /\ (d.began = fileChanges => Expected(d, OnDisk))
    BY <1>1, <1>2 DEF AtWork, Witnessed, Steady
  <1>4. d.raw \in MaybeContent /\ Readable(d.raw)
    BY <1>2, <1>3 DEF AtWork, Examined, SeenRaw, DoctorState
  <1>5. d.raw \in Content
    BY <1>4 DEF MaybeContent, Readable
  <1>6. d.raw.id \in Id /\ vault[d.raw.id] \in Vault
    BY <1>5, DoctorAssumption DEF DoctorInv, FilesOk
  <1> QED
    BY <1>1, <1>2, <1>3, <1>4, <1>5, <1>6 DEF AtWork, Examined, Expected

\* The check of a vault goes on to its next step.
LEMMA VaultGoesOn ==
  ASSUME DoctorInv, NEW p \in Process, doctor[p].at \in Judging,
         NEW at \in Judging, NEW found \in SUBSET Issue, NEW new,
         new = [doctor[p] EXCEPT !.at = at, !.issues = doctor[p].issues \union found],
         doctor' = [doctor EXCEPT ![p] = new], UNCHANGED <<Project, snapshot, seen>>,
         SeenPrivate(new, seen[p]),
         doctor[p].began = fileChanges => ExpectedJudging(new, OnDisk)
  PROVE  DoctorInv'
  <1> DEFINE d == doctor[p]
  <1>1. /\ AtWork(p) /\ d \in DoctorState
        /\ SeenRaw(d, seen[p])
        /\ Clean(d) => SeenPublic(d, seen[p]) /\ SeenConfig(d, seen[p]) /\ SeenInventory(d, seen[p])
        /\ d.began = fileChanges => /\ d.raw = file[Current(d.todo)]
                                    /\ d.stored <=> ThereIn(d.raw, OnDisk)
        /\ Readable(d.raw) /\ OnDisk.file = file
    BY AtVault
  <1>2. /\ GoesAs(new, p) /\ new.at = at /\ new.raw = d.raw /\ new.stored = d.stored
        /\ new.todo = d.todo /\ new.issues = d.issues \union found /\ new.config = d.config
    <2>1. d.issues \union found \in SUBSET Issue
      BY <1>1 DEF DoctorState
    <2>2. at \in Examining
      BY DEF Examining
    <2> QED
      BY <1>1, <2>1, <2>2 DEF GoesAs, DoctorState, Busy
  <1> HIDE DEF d
  <1>3. new.at \notin LoadStep \union {"private", "load"} /\ new.at \in Judging
    BY <1>2 DEF LoadStep, Judging
  <1>4. Clean(new) => Clean(d)
    BY <1>2 DEF Clean
  <1>5. Examined(new, seen[p])
    BY <1>1, <1>2, <1>3, <1>4 DEF Examined, SeenRaw, SeenPublic, SeenConfig, SeenInventory
  <1>6. d.began = fileChanges => Expected(new, OnDisk)
    BY <1>1, <1>2, <1>3 DEF Expected, d
  <1> QED
    BY <1>1, <1>2, <1>5, <1>6, ExaminationKeeps DEF d

LEMMA CheckPrivateKeeps ==
  ASSUME DoctorInv, NEW p \in Process, CheckPrivateFile(p) PROVE DoctorInv'
  <1> DEFINE d == doctor[p]
             i == d.raw.id
             meta == vault[i].meta
             parses == meta \notin {"none", "broken"}
  <1>1. d.at = "metadata" /\ UNCHANGED <<Project, snapshot, seen>>
    BY DEF CheckPrivateFile
  <1>2. /\ d \in DoctorState /\ OnDisk \in seen[p] /\ OnDisk.vault = vault
        /\ SeenPrivate(d, seen[p]) /\ vault[i] \in Vault
        /\ d.began = fileChanges => ExpectedJudging(d, OnDisk)
    BY <1>1, AtVault DEF Judging
  <1>3. PICK found : found = When(~parses, "private") \union When(meta = "wrong", "domain")
    OBVIOUS
  <1>4. found \subseteq Issue
    <2>1. /\ When(~parses, "private") \subseteq {"private"}
          /\ When(meta = "wrong", "domain") \subseteq {"domain"}
      BY WhenIs
    <2> QED
      BY <1>3, <2>1 DEF Issue, Error
  <1>5. PICK at \in Judging : at = IF parses THEN "secrets" ELSE "rest"
    BY DEF Judging
  <1>6. PICK new : new = [d EXCEPT !.at = at, !.issues = d.issues \union found]
    OBVIOUS
  <1>7. doctor' = [doctor EXCEPT ![p] = new]
    BY <1>3, <1>5, <1>6 DEF CheckPrivateFile, DoctorInv, FilesOk, DoctorState
  <1>8. /\ new.at = at /\ new.issues = d.issues \union found /\ new.raw = d.raw
        /\ new.stored = d.stored /\ new.config = d.config /\ new.inventory = d.inventory
    BY <1>2, <1>6 DEF DoctorState
  <1>9. Clean(new) => meta = "good"
    <2>1. Clean(new) => When(~parses, "private") \subseteq Warning /\ When(meta = "wrong", "domain") \subseteq Warning
      BY <1>3, <1>8 DEF Clean
    <2>2. "private" \notin Warning /\ "domain" \notin Warning
      BY DEF Warning
    <2>3. Clean(new) => parses /\ meta # "wrong"
      BY <2>1, <2>2, WhenIs
    <2> QED
      BY <1>2, <2>3 DEF Vault
  <1>10. SeenPrivate(new, seen[p])
    <2>1. Clean(new) => Fits(seen[p], i)
      BY <1>2, <1>9 DEF Fits
    <2>2. at # "master key" /\ (at = "rest" => ~Clean(new))
      BY <1>5, <1>9
    <2> QED
      BY <1>1, <1>2, <1>8, <2>1, <2>2 DEF SeenPrivate
  <1>11. ASSUME d.began = fileChanges PROVE ExpectedJudging(new, OnDisk)
    <2>1. parses <=> ParsedIn(d.raw, OnDisk)
      BY <1>2 DEF ParsedIn
    <2>2. d.issues = LoadFindings(d.raw, OnDisk) /\ ThereIn(d.raw, OnDisk)
      BY <1>1, <1>2, <1>11 DEF ExpectedJudging
    <2>3. new.issues = MetaFindings(d.raw, OnDisk)
      BY <1>2, <1>3, <1>8, <2>1, <2>2 DEF MetaFindings, ParsedIn
    <2>4. at = "rest" => MetaFindings(d.raw, OnDisk) = AllFindings(d.raw, OnDisk)
      BY <1>5, <2>1, <2>2 DEF AllFindings
    <2>5. at \in {"secrets", "rest"} /\ (at = "secrets" => ParsedIn(d.raw, OnDisk))
      BY <1>5, <2>1
    <2> HIDE DEF d, parses, meta
    <2> QED
      BY <1>2, <1>8, <1>11, <2>2, <2>3, <2>4, <2>5 DEF ExpectedJudging
  <1>12. d.at \in Judging
    BY <1>1 DEF Judging
  <1> QED
    BY <1>1, <1>4, <1>6, <1>7, <1>10, <1>11, <1>12, VaultGoesOn

LEMMA CheckStoreKeeps ==
  ASSUME DoctorInv, NEW p \in Process, CheckEncryptedStore(p) PROVE DoctorInv'
  <1> DEFINE d == doctor[p]
             i == d.raw.id
  <1>1. d.at = "secrets" /\ UNCHANGED <<Project, snapshot, seen>>
    BY DEF CheckEncryptedStore
  <1>2. /\ d \in DoctorState /\ OnDisk \in seen[p] /\ OnDisk.vault = vault
        /\ SeenPrivate(d, seen[p])
        /\ d.began = fileChanges => ExpectedJudging(d, OnDisk)
    BY <1>1, AtVault DEF Judging
  <1>3. PICK found : found = When(~vault[i].store, "no store")
    OBVIOUS
  <1>4. found \subseteq Issue
    BY <1>3, WhenIs DEF Issue, Error
  <1>5. PICK new : new = [d EXCEPT !.at = "master key", !.issues = d.issues \union found]
    OBVIOUS
  <1>6. doctor' = [doctor EXCEPT ![p] = new]
    BY <1>3, <1>5 DEF CheckEncryptedStore, DoctorInv, FilesOk, DoctorState
  <1>7. /\ new.at = "master key" /\ new.issues = d.issues \union found /\ new.raw = d.raw
        /\ new.stored = d.stored /\ new.config = d.config /\ new.inventory = d.inventory
    BY <1>2, <1>5 DEF DoctorState
  <1>8. SeenPrivate(new, seen[p])
    <2>1. Clean(new) => Clean(d) /\ found \subseteq Warning
      BY <1>7 DEF Clean
    <2>2. "no store" \notin Warning
      BY DEF Warning
    <2>3. When(~vault[i].store, "no store") \subseteq Warning => ~~vault[i].store
      BY <2>2, WhenIs
    <2>4. Clean(new) => vault[i].store
      BY <1>3, <2>1, <2>3
    <2>5. Clean(new) => Kept(seen[p], i)
      BY <1>2, <2>4 DEF Kept
    <2> QED
      BY <1>1, <1>2, <1>7, <2>1, <2>5 DEF SeenPrivate
  <1>9. d.began = fileChanges => ExpectedJudging(new, OnDisk)
    BY <1>1, <1>2, <1>3, <1>7 DEF ExpectedJudging, StoreFindings
  <1>10. d.at \in Judging /\ "master key" \in Judging
    BY <1>1 DEF Judging
  <1> QED
    BY <1>1, <1>4, <1>5, <1>6, <1>8, <1>9, <1>10, VaultGoesOn

LEMMA CheckKeyKeeps ==
  ASSUME DoctorInv, NEW p \in Process, CheckMasterKey(p) PROVE DoctorInv'
  <1> DEFINE d == doctor[p]
             i == d.raw.id
  <1>1. d.at = "master key" /\ UNCHANGED <<Project, snapshot, seen>>
    BY DEF CheckMasterKey
  <1>2. /\ d \in DoctorState /\ OnDisk.vault = vault
        /\ SeenPrivate(d, seen[p])
        /\ d.began = fileChanges => ExpectedJudging(d, OnDisk)
    BY <1>1, AtVault DEF Judging
  <1>3. PICK found : found = When(~vault[i].key, "no master key")
    OBVIOUS
  <1>4. found \subseteq Issue
    BY <1>3, WhenIs DEF Issue, Warning
  <1>5. PICK new : new = [d EXCEPT !.at = "rest", !.issues = d.issues \union found]
    OBVIOUS
  <1>6. doctor' = [doctor EXCEPT ![p] = new]
    BY <1>3, <1>5 DEF CheckMasterKey, DoctorInv, FilesOk, DoctorState
  <1>7. /\ new.at = "rest" /\ new.issues = d.issues \union found /\ new.raw = d.raw
        /\ new.stored = d.stored /\ new.config = d.config /\ new.inventory = d.inventory
    BY <1>2, <1>5 DEF DoctorState
  <1>8. SeenPrivate(new, seen[p])
    <2>1. Clean(new) => Clean(d)
      BY <1>7 DEF Clean
    <2> QED
      BY <1>1, <1>2, <1>7, <2>1 DEF SeenPrivate
  <1>9. ASSUME d.began = fileChanges PROVE ExpectedJudging(new, OnDisk)
    <2>1. new.issues = KeyFindings(d.raw, OnDisk)
      BY <1>1, <1>2, <1>3, <1>7, <1>9 DEF ExpectedJudging, KeyFindings
    <2>2. KeyFindings(d.raw, OnDisk) = AllFindings(d.raw, OnDisk)
      BY <1>1, <1>2, <1>9 DEF ExpectedJudging, AllFindings
    <2> QED
      BY <1>2, <1>7, <1>9, <2>1, <2>2 DEF ExpectedJudging
  <1>10. d.at \in Judging /\ "rest" \in Judging
    BY <1>1 DEF Judging
  <1> QED
    BY <1>1, <1>4, <1>5, <1>6, <1>8, <1>9, <1>10, VaultGoesOn

LEMMA CheckRestKeeps ==
  ASSUME DoctorInv, NEW p \in Process, CheckRest(p) PROVE DoctorInv'
  <1> DEFINE d == doctor[p]
             c == Current(d.todo)
             checked == IF d.config = Gone THEN d.raw ELSE d.config
  <1>1. d.at = "rest" /\ UNCHANGED <<Project, snapshot, seen>>
    BY DEF CheckRest
  <1>2. /\ AtWork(p) /\ d \in DoctorState /\ c \in Path /\ OnDisk.file = file
        /\ OnDisk.vault = vault /\ SeenRaw(d, seen[p]) /\ SeenPrivate(d, seen[p])
        /\ Clean(d) => SeenPublic(d, seen[p]) /\ SeenConfig(d, seen[p]) /\ SeenInventory(d, seen[p])
        /\ d.began = fileChanges => d.raw = file[c] /\ ExpectedJudging(d, OnDisk)
        /\ Readable(d.raw) /\ d.raw.id \in Id
    BY <1>1, AtVault DEF AtWork, Judging
  <1>3. PICK r : r = [file |-> c, id |-> d.raw.id,
                      issues |-> d.issues \union MergedErrors(checked)
                                     \union SecurityWarnings(d.config, vault),
                      config |-> d.config, inventory |-> d.inventory, setting |-> d.setting]
    OBVIOUS
  <1>4. NextPath(p, r)
    BY <1>3 DEF CheckRest
  <1>5. /\ r \in Report /\ r.file = c /\ r.id = d.raw.id
        /\ d.issues \union MergedErrors(checked) \subseteq r.issues
    <2>1. d.issues \union MergedErrors(checked) \union SecurityWarnings(d.config, vault)
            \in SUBSET (Warning \union Error)
      <3>1. SecurityWarnings(d.config, vault) \subseteq Warning
        BY WhenIs DEF SecurityWarnings, Warning
      <3> QED
        BY <1>2, <3>1, ErrorsAre DEF DoctorState, Issue
    <2> HIDE DEF checked, c
    <2> QED
      BY <1>2, <1>3, <2>1 DEF Report, DoctorState, AnySetting
  <1>6. ASSUME Clean(r) PROVE Vouched(r, seen[p])
    <2>1. Clean(d) /\ MergedErrors(checked) = {}
      BY <1>5, <1>6, ErrorsAre DEF Clean
    <2>2. PICK s \in seen[p] : s.file[c] = d.raw
      BY <1>2 DEF SeenRaw
    <2>3. PICK u \in seen[p] :
            /\ Readable(u.file[c])
            /\ IF d.config = Gone THEN u.file[c].legacy
               ELSE d.config = u.file[c] /\ ~d.config.legacy
      BY <1>2, <2>1 DEF SeenConfig
    <2>4. Faultless(seen[p], d.raw, d.raw.id)
      BY <1>1, <1>2, <2>1 DEF SeenPublic, SeenPrivate, Faultless, DoctorState
    <2>5. IF u.file[c].legacy THEN MergedErrors(d.raw) = {}
          ELSE MergedErrors(u.file[c]) = {} /\ Loadable(seen[p], u.file[c].id)
      BY <1>2, <2>1, <2>3 DEF SeenInventory
    <2> HIDE DEF d, c, checked
    <2> QED
      BY <1>2, <1>5, <2>2, <2>3, <2>4, <2>5 DEF Vouched
  <1>7. ASSUME d.began = fileChanges
        PROVE  r = ReportOf(c, OnDisk, d.setting) /\ c \in Present(OnDisk)
    <2>1. /\ d.raw = file[c] /\ d.config = ConfigOf(d.raw, OnDisk)
          /\ d.inventory = InventoryOf(d.raw, OnDisk) /\ d.issues = AllFindings(d.raw, OnDisk)
      BY <1>1, <1>2, <1>7 DEF ExpectedJudging
    <2>2. checked = d.raw
      BY <1>2, <2>1 DEF ConfigOf, Readable
    <2>3. c \in Present(OnDisk)
      BY <1>2, <2>1 DEF Present, Readable
    <2> HIDE DEF d, c, checked
    <2> QED
      BY <1>2, <1>3, <2>1, <2>2, <2>3 DEF ReportOf
  <1> QED
    BY <1>1, <1>2, <1>4, <1>5, <1>6, <1>7, ReportKeeps

LEMMA CompareKeeps ==
  ASSUME DoctorInv, NEW p \in Process, NEW update \in BOOLEAN, CompareSnapshot(p, update)
  PROVE  DoctorInv'
  <1> DEFINE d == doctor[p]
  <1>1. d.at = "public" /\ d.todo = {} /\ UNCHANGED <<file, vault, fileChanges, snapshot, seen>>
    BY DEF CompareSnapshot, Project
  <1>2. /\ d \in DoctorState /\ Sound(d, seen[p], OnDisk, fileChanges)
        /\ OnDisk \in seen[p] /\ Witnessed(d, seen[p]) /\ d.began <= fileChanges
        /\ d.began = fileChanges => Steady(d, OnDisk)
        /\ d.began \in Nat /\ fileChanges \in Nat
        /\ snapshot.is \in {"none", "torn", "whole"} /\ snapshot.began \in Nat
        /\ snapshot.setting \in AnySetting
    BY <1>1 DEF DoctorInv, FilesOk, DoctorState, Sound, Busy
  <1>3. PICK drift \in {"no baseline", "quiet", "drift"} :
          drift = IF snapshot.is # "whole" THEN "no baseline"
                  ELSE IF Same(d.reports, snapshot.reports) THEN "quiet" ELSE "drift"
    OBVIOUS
  <1>4. PICK at \in {"pages", "exit"} : at = IF update THEN "pages" ELSE "exit"
    OBVIOUS
  <1>5. PICK baseline : baseline = [began |-> snapshot.began, setting |-> snapshot.setting]
    OBVIOUS
  <1>6. PICK new : new = [d EXCEPT !.at = at, !.drift = drift, !.baseline = baseline]
    OBVIOUS
  <1>7. doctor' = [doctor EXCEPT ![p] = new]
    BY <1>2, <1>3, <1>4, <1>5, <1>6 DEF CompareSnapshot, DoctorInv, FilesOk, DoctorState
  <1>8. /\ new \in DoctorState /\ new.at = at /\ new.drift = drift
        /\ new.baseline = baseline /\ new.began = d.began /\ new.setting = d.setting
        /\ new.todo = d.todo /\ new.reports = d.reports
    <2>1. /\ at \in {"off"} \union Busy \union DoctorOver
          /\ baseline \in [began : Nat, setting : AnySetting]
          /\ drift \in {"unknown", "no baseline", "drift", "quiet"}
      BY <1>2, <1>3, <1>4, <1>5 DEF Busy
    <2> QED
      BY <1>2, <1>6, <2>1 DEF DoctorState
  <1> HIDE DEF d
  <1>9. drift = "drift" => \/ d.began < fileChanges \/ snapshot.began < fileChanges
                           \/ snapshot.setting # d.setting
    <2> SUFFICES ASSUME drift = "drift", d.began = fileChanges, snapshot.began = fileChanges,
                        snapshot.setting = d.setting
                 PROVE  FALSE
      BY <1>2, <1>3 DEF DoctorInv, SoundSnapshot
    <2>1. snapshot.is = "whole" /\ ~Same(d.reports, snapshot.reports)
      BY <1>3
    <2>2. snapshot.reports = ReportsOf(Present(OnDisk), OnDisk, d.setting)
      BY <2>1 DEF DoctorInv, SoundSnapshot
    <2>3. d.reports = ReportsOf(Present(OnDisk), OnDisk, d.setting)
      <3>1. Present(OnDisk) \ d.todo = Present(OnDisk)
        BY <1>1 DEF d
      <3> QED
        BY <1>2, <3>1 DEF Steady
    <2>4. d.reports = snapshot.reports
      BY <2>2, <2>3
    <2> QED
      BY <2>1, <2>4 DEF Same
  <1>10. at \in Busy /\ at \notin Examining \union {"public", "off"}
    BY <1>4 DEF Busy, Examining, Judging, LoadStep
  <1>11. Witnessed(new, seen[p]) /\ (d.began = fileChanges => Steady(new, OnDisk))
    BY <1>2, <1>8, <1>10 DEF Witnessed, Steady
  <1>12. Sound(new, seen[p], OnDisk, fileChanges)
    <2>1. new.drift = "drift" => \/ new.began < fileChanges \/ new.baseline.began < fileChanges
                                 \/ new.baseline.setting # new.setting
      BY <1>5, <1>8, <1>9
    <2>2. new.at \notin {"off"} /\ new.todo = {}
      BY <1>1, <1>8, <1>10 DEF d
    <2> QED
      BY <1>2, <1>8, <1>11, <2>1, <2>2 DEF Sound
  <1>13. DOMAIN seen = Process
    BY DEF DoctorInv, FilesOk
  <1> QED
    BY <1>1, <1>7, <1>8, <1>12, <1>13, DoctorGoes

\* The process that writes the index goes on; the index is sound.
LEMMA SnapshotKeeps ==
  ASSUME DoctorInv, NEW p \in Process, NEW at \in {"index", "exit"},
         doctor[p].at \in {"pages", "index"},
         doctor' = [doctor EXCEPT ![p].at = at], UNCHANGED <<file, vault, fileChanges, seen>>,
         snapshot' = [NoSnapshot EXCEPT !.is = "torn"] \/ snapshot' = Document(p, doctor[p].reports)
  PROVE  DoctorInv'
  <1> DEFINE d == doctor[p]
  <1>1. /\ d \in DoctorState /\ Sound(d, seen[p], OnDisk, fileChanges)
        /\ d.todo = {} /\ OnDisk \in seen[p] /\ Witnessed(d, seen[p])
        /\ d.began \in Nat /\ d.began <= fileChanges
        /\ d.began = fileChanges => Steady(d, OnDisk)
    BY DEF DoctorInv, FilesOk, DoctorState, Sound, Busy
  <1>2. PICK new : new = [d EXCEPT !.at = at]
    OBVIOUS
  <1>3. doctor' = [doctor EXCEPT ![p] = new]
    BY <1>2 DEF DoctorInv, FilesOk
  <1>4. /\ new \in DoctorState /\ new.at = at /\ new.drift = d.drift
        /\ new.baseline = d.baseline /\ new.began = d.began /\ new.setting = d.setting
        /\ new.todo = d.todo /\ new.reports = d.reports
    BY <1>1, <1>2 DEF DoctorState, Busy
  <1>5. at \in Busy /\ at \notin Examining \union {"public", "off"}
    BY DEF Busy, Examining, Judging, LoadStep
  <1>6. Witnessed(new, seen[p]) /\ (d.began = fileChanges => Steady(new, OnDisk))
    BY <1>1, <1>4, <1>5 DEF Witnessed, Steady
  <1>7. Sound(new, seen[p], OnDisk, fileChanges)
    BY <1>1, <1>4, <1>5, <1>6 DEF Sound
  <1>8. SoundSnapshot(snapshot', OnDisk, fileChanges)
    <2>1. d.began = fileChanges => d.reports = ReportsOf(Present(OnDisk), OnDisk, d.setting)
      <3>1. Present(OnDisk) \ d.todo = Present(OnDisk)
        BY <1>1
      <3> QED
        BY <1>1, <3>1 DEF Steady
    <2>2. CASE snapshot' = [NoSnapshot EXCEPT !.is = "torn"]
      BY <2>2 DEF SoundSnapshot, NoSnapshot
    <2>3. CASE snapshot' = Document(p, doctor[p].reports)
      BY <1>1, <2>1, <2>3 DEF SoundSnapshot, Document
    <2> QED
      BY <2>2, <2>3
  <1>9. snapshot' \in [is : {"none", "torn", "whole"}, reports : SUBSET Report, began : Nat,
                       setting : AnySetting]
    <2>1. d.reports \in SUBSET Report /\ d.setting \in AnySetting
      BY <1>1 DEF DoctorState
    <2>2. CASE snapshot' = [NoSnapshot EXCEPT !.is = "torn"]
      BY <2>2 DEF NoSnapshot, AnySetting
    <2>3. CASE snapshot' = Document(p, doctor[p].reports)
      BY <1>1, <2>1, <2>3 DEF Document
    <2> QED
      BY <2>2, <2>3
  <1>10. OnDisk' = OnDisk
    BY DEF OnDisk
  <1>11. /\ doctor' \in [Process -> DoctorState] /\ doctor'[p] = new
         /\ \A q \in Process \ {p} : doctor'[q] = doctor[q]
    BY <1>3, <1>4 DEF DoctorInv, FilesOk
  <1>12. ASSUME NEW q \in Process PROVE Sound(doctor[q], seen[q], OnDisk, fileChanges)'
    <2>1. CASE q = p
      BY <1>7, <1>10, <1>11, <2>1
    <2>2. CASE q # p
      BY <1>10, <1>11, <2>2 DEF DoctorInv
    <2> QED
      BY <2>1, <2>2
  <1>13. FilesOk'
    BY <1>9, <1>11 DEF DoctorInv, FilesOk
  <1> QED
    BY <1>8, <1>10, <1>12, <1>13 DEF DoctorInv

LEMMA DoctorStep == DoctorInv /\ [DoctorNext]_doctorVars => DoctorInv'
  <1> SUFFICES ASSUME DoctorInv, [DoctorNext]_doctorVars PROVE DoctorInv'
    OBVIOUS
  <1>0. /\ file \in [Path -> MaybeContent] /\ vault \in [Id -> Vault]
        /\ DOMAIN seen = Process
    BY DEF DoctorInv, FilesOk
  <1>1. CASE \E f \in Path, content \in FileChange : ChangeFile(f, content)
    <2>1. file' \in [Path -> MaybeContent] /\ UNCHANGED vault /\ Changed
      BY <1>0, <1>1, DoctorAssumption DEF ChangeFile, MaybeContent
    <2> QED
      BY <1>0, <2>1, ChangeKeeps
  <1>2. CASE \E i \in Id, content \in VaultChange : ChangeVault(i, content)
    <2>1. vault' \in [Id -> Vault] /\ UNCHANGED file /\ Changed
      BY <1>0, <1>2, DoctorAssumption DEF ChangeVault
    <2> QED
      BY <1>0, <2>1, ChangeKeeps
  <1>3. CASE \E p \in Process, warnings \in BOOLEAN : PeerMetaOnly(p, warnings)
    <2>1. PICK p \in Process, warnings \in BOOLEAN : PeerMetaOnly(p, warnings)
      BY <1>3
    <2>2. PICK how \in {"exit 0", "exit 1"} :
            /\ doctor' = [doctor EXCEPT ![p] = [NotRun EXCEPT !.at = how]]
            /\ UNCHANGED <<file, vault, fileChanges, snapshot, seen>>
      BY <2>1 DEF PeerMetaOnly, RunConfigDoctor, Project
    <2> QED
      BY <1>0, <2>2, DoctorEnds DEF DoctorOver
  <1>4. CASE \E p \in Process, errors \in BOOLEAN : ExitDoctor(p, errors)
    <2>1. PICK p \in Process, errors \in BOOLEAN : ExitDoctor(p, errors)
      BY <1>4
    <2>2. PICK how \in {"exit 0", "exit 1"} :
            doctor' = [doctor EXCEPT ![p] = [NotRun EXCEPT !.at = how]]
      BY <2>1 DEF ExitDoctor, RunConfigDoctor
    <2>3. seen' = [seen EXCEPT ![p] = {}] /\ UNCHANGED <<file, vault, fileChanges, snapshot>>
      BY <2>1 DEF ExitDoctor, Project
    <2> QED
      BY <1>0, <2>2, <2>3, DoctorEnds DEF DoctorOver
  <1>5. CASE \/ \E p \in Process, update \in BOOLEAN : CompareSnapshot(p, update)
             \/ \E p \in Process, setting \in RunSetting : BeginDoctor(p, setting)
    BY <1>5, CompareKeeps, BeginKeeps
  <1>6. CASE \E p \in Process :
                \/ ReadPublicFile(p) \/ CheckPublic(p) \/ LoadConfig(p) \/ LoadInventory(p)
                \/ CheckPrivateFile(p) \/ CheckEncryptedStore(p) \/ CheckMasterKey(p) \/ CheckRest(p)
    BY <1>6, ReadPublicKeeps, CheckPublicKeeps, LoadConfigKeeps, LoadInventoryKeeps,
       CheckPrivateKeeps, CheckStoreKeeps, CheckKeyKeeps, CheckRestKeeps
  <1>7. CASE \E p \in Process : OpenSnapshot(p) \/ CloseSnapshot(p)
    <2>1. PICK p \in Process : OpenSnapshot(p) \/ CloseSnapshot(p)
      BY <1>7
    <2>2. PICK at \in {"index", "exit"} : doctor' = [doctor EXCEPT ![p].at = at]
      BY <2>1 DEF OpenSnapshot, CloseSnapshot, Written
    <2>3. /\ doctor[p].at \in {"pages", "index"} /\ UNCHANGED <<file, vault, fileChanges, seen>>
          /\ \/ snapshot' = [NoSnapshot EXCEPT !.is = "torn"]
             \/ snapshot' = Document(p, doctor[p].reports)
      BY <2>1 DEF OpenSnapshot, CloseSnapshot, Written, Project
    <2> QED
      BY <2>2, <2>3, SnapshotKeeps
  <1>8. CASE \E p \in Process : KillDoctor(p)
    <2>1. PICK p \in Process : KillDoctor(p)
      BY <1>8
    <2> QED
      BY <1>0, <2>1, DoctorEnds DEF KillDoctor, DoctorOver
  <1>9. CASE UNCHANGED doctorVars
    BY <1>9 DEF doctorVars, DoctorInv, FilesOk, OnDisk
  <1> QED
    BY <1>1, <1>2, <1>3, <1>4, <1>5, <1>6, <1>7, <1>8, <1>9 DEF DoctorNext

LEMMA CleanExitHolds == DoctorInv => CleanExitMeansClean
  <1> SUFFICES ASSUME DoctorInv, NEW p \in Process, doctor[p].at \notin DoctorOver,
                      Satisfied(p), NEW r \in doctor[p].reports
               PROVE  Vouched(r, seen[p])
    BY DEF CleanExitMeansClean, Vouched
  <1>1. doctor[p] \in DoctorState /\ Sound(doctor[p], seen[p], OnDisk, fileChanges)
    BY DEF DoctorInv, FilesOk
  <1>2. doctor[p].at \in Busy
    BY <1>1 DEF Sound, DoctorState
  <1> QED
    BY <1>1, <1>2 DEF Sound, Witnessed, Satisfied, Clean

(* A doctor that is content vouches for every file it found.  Since it     *)
(* began there was a version of the file without an error as it is         *)
(* written, with a vault without one or none, and a version that made a    *)
(* config without an error, whose vault could be loaded; for any number of *)
(* files and processes, and of edits between any two of its reads, of the  *)
(* same load too (doctor.ts:627-800, loader.ts:60-191).                    *)
THEOREM CleanExitsVouch == DoctorSpec => []CleanExitMeansClean
  BY CleanExitHolds, DoctorInitially, DoctorStep, PTL DEF DoctorSpec

LEMMA QuietHolds == DoctorInv => UnchangedIsQuiet
  BY DEF DoctorInv, Sound, UnchangedIsQuiet

(* Drift is never a false alarm: where nothing changed since the run that  *)
(* compares and the update that made the index began, and both were run    *)
(* with the same flags, terminal and environment, the comparison is quiet, *)
(* warnings included, however many updates interleave and die              *)
(* (doctor-snapshot.ts:109-208).                                           *)
THEOREM NoFalseAlarm == DoctorSpec => []UnchangedIsQuiet
  BY QuietHolds, DoctorInitially, DoctorStep, PTL DEF DoctorSpec

-----------------------------------------------------------------------------
(* The migration of vaults, and a load beside it.                          *)
(*                                                                         *)
(* What a migration has done of a file when it comes to a step is what     *)
(* makes its invariants inductive: the public file keeps its inventory up  *)
(* to its own rewriting (PublicLast), the store is whole before that and   *)
(* made with the key in the keychain (StoreFirst), and a vault that was    *)
(* there before a key was set is marked as replaced (MarkedReplaced).  A   *)
(* vault that is whole and not replaced has its key in the keychain, or is *)
(* marked as one that lost it (VaultWhole).                                *)

\* The steps from which a file is in work, has its key, and has its store.
InWork == {"check", "set key", "save store", "store torn", "write private", "private torn",
           "write public", "public torn"}
HasKey == InWork \ {"check", "set key"}
HasStore == HasKey \ {"save store", "store torn"}

StepsHaveFile ==
    /\ command.step \in InWork \union {"read"} => command.file \in File
    /\ command.step \in HasKey => command.key \in Key
    /\ command.step \notin HasKey => command.key = NoKey

PublicLast ==
    command.step \in InWork \ {"public torn"} => public[command.file] = "inline"

StoreFirst ==
    command.step \in HasStore => store[command.file] = command.key

PrivateFirst == \A f \in File : public[f] # "inline" => private[f] # NoneYet

MarkedReplaced ==
    /\ command.step = "save store" /\ VaultExists(command.file) => replaced[command.file]
    /\ command.step \in {"store torn", "write private"} /\ private[command.file] # NoneYet
          => replaced[command.file]
    /\ command.step \in {"write public", "public torn"} => private[command.file] # NoneYet

UnkeyedVault == \A f \in File : unkeyed[f] => store[f] # NoneYet

VaultWhole ==
    \A f \in File :
       private[f] = "complete" /\ ~replaced[f] =>
          store[f] \in Key /\ (store[f] = key[f] \/ unkeyed[f])

LoadSound ==
    /\ load.result # "none" => load.step = "over"
    /\ load.step = "private" /\ ~load.inline => private[load.file] # NoneYet
    /\ load.step \in {"key", "store"} /\ ~replaced[load.file] => private[load.file] = "complete"
    /\ load.step = "store" /\ ~replaced[load.file] =>
          load.key = key[load.file] \/ unkeyed[load.file]

\* What a migration has done of the file in work; what is true of every file;
\* and what a load has seen.
WorkInv == StepsHaveFile /\ PublicLast /\ StoreFirst /\ MarkedReplaced
FileInv == PrivateFirst /\ UnkeyedVault /\ VaultWhole /\ InventoryNeverLost
LoadInv == LoadSound /\ LoadNeverWrong

VaultInv == VaultTypeOK /\ WorkInv /\ FileInv /\ LoadInv

-----------------------------------------------------------------------------
LEMMA FreshKeyIsOne ==
  ASSUME VaultTypeOK, NEW f \in File
  PROVE  FreshKey(f) \in Key /\ FreshKey(f) \notin {key[f], store[f], load.key}
  <1> DEFINE Held(k) == IF k \in Key THEN k ELSE NoKey
  <1>1. Key \ {Held(key[f]), Held(store[f]), Held(load.key)} # {}
    BY KeyAssumption
  <1>2. \E k \in Key : k \notin {key[f], store[f], load.key}
    BY <1>1
  <1> QED
    BY <1>2 DEF FreshKey

LEMMA OneMoreCrash ==
  ASSUME crashes \in 0 .. MaxCrashes, crashes < MaxCrashes
  PROVE  crashes + 1 \in 0 .. MaxCrashes
  BY VaultAssumption

LEMMA OneMoreKey ==
  ASSUME keyChanges \in 0 .. MaxKeyChanges, keyChanges < MaxKeyChanges
  PROVE  keyChanges + 1 \in 0 .. MaxKeyChanges
  BY VaultAssumption

\* master-key gives a file another key, or none.
LEMMA KeyChanges ==
  ASSUME VaultTypeOK, NEW f \in File, NEW answers \in BOOLEAN,
         InitMasterKey(f, answers) \/ DeleteMasterKey(f)
  PROVE  \E new \in Key \union {NoKey} : ChangeKey(f, new)
  BY FreshKeyIsOne DEF InitMasterKey, DeleteMasterKey

LEMMA TypeStutters ==
  ASSUME VaultTypeOK, UNCHANGED vaultVars
  PROVE  VaultTypeOK'
  BY DEF VaultTypeOK, vaultVars, files, histories

LEMMA VaultInitInv == VaultInit => VaultInv
  <1> SUFFICES ASSUME VaultInit PROVE VaultInv
    OBVIOUS
  <1> USE VaultAssumption DEF VaultInit, Idle, NotLoading
  <1>1. VaultTypeOK
    <2>1. /\ command \in [step : MigrationStep, force : BOOLEAN, file : File \union {NoFile},
                         todo : SUBSET File, key : Key \union {NoKey}]
          /\ command.key = NoKey
      BY DEF MigrationStep
    <2>2. /\ load \in [step : {"idle", "private", "key", "store", "over"}, file : File \union {NoFile},
                      inline : BOOLEAN, key : Key \union {NoKey},
                      result : {"none", "full", "partial", "empty", "throws"}]
          /\ load.step = "idle"
      OBVIOUS
    <2>3. crashes \in 0 .. MaxCrashes /\ keyChanges \in 0 .. MaxKeyChanges
      OBVIOUS
    <2> QED
      BY <2>1, <2>2, <2>3 DEF VaultTypeOK, NoneYet
  <1>2. WorkInv
    BY DEF WorkInv, StepsHaveFile, PublicLast, StoreFirst, MarkedReplaced, InWork, HasKey, HasStore
  <1>3. FileInv
    BY DEF FileInv, PrivateFirst, UnkeyedVault, VaultWhole, InventoryNeverLost, NoneYet
  <1>4. LoadInv
    BY DEF LoadInv, LoadSound, LoadNeverWrong
  <1> QED
    BY <1>1, <1>2, <1>3, <1>4 DEF VaultInv

\* A load that is over leaves the types as they are.
LEMMA LoadedTyped ==
  ASSUME VaultTypeOK, load.file \in File, NEW r \in {"full", "partial", "empty", "throws"}, Loaded(r),
         UNCHANGED <<files, command, histories>>
  PROVE  VaultTypeOK'
  <1>1. /\ load' = [step |-> "over", file |-> load.file, inline |-> FALSE, key |-> NoKey, result |-> r]
        /\ load'.file = load.file
    BY DEF Loaded, NotLoading
  <1>2. load' \in [step : {"idle", "private", "key", "store", "over"}, file : File \union {NoFile},
                  inline : BOOLEAN, key : Key \union {NoKey},
                  result : {"none", "full", "partial", "empty", "throws"}]
    BY <1>1
  <1> QED
    BY <1>1, <1>2 DEF VaultTypeOK, files, histories

LEMMA TypeStep == VaultInv /\ [VaultNext]_vaultVars => VaultTypeOK'
  <1> SUFFICES ASSUME VaultInv, [VaultNext]_vaultVars PROVE VaultTypeOK'
    OBVIOUS
  <1> USE VaultAssumption DEF VaultInv, VaultTypeOK, WorkInv, StepsHaveFile, InWork, HasKey,
     MigrationStep, Idle, NotLoading, NoneYet, Torn, files, histories, Skip, Loaded
  <1>1. ASSUME NEW force \in BOOLEAN, StartMigration(force) PROVE VaultTypeOK'
    BY <1>1 DEF StartMigration
  <1>2. ASSUME NEW f \in File, NextFile(f) PROVE VaultTypeOK'
    <2>1. UNCHANGED <<files, load, histories>>
      BY <1>2 DEF NextFile
    <2>2. command' = [command EXCEPT !.step = "read", !.file = f, !.todo = @ \ {f}]
      BY <1>2 DEF NextFile
    <2>3. command.key = NoKey
      BY <1>2 DEF NextFile
    <2> QED
      BY <2>1, <2>2, <2>3
  <1>3. ASSUME NEW f \in File, ReadPublic(f) PROVE VaultTypeOK'
    <2>1. UNCHANGED <<files, load, histories>>
      BY <1>3 DEF ReadPublic
    <2>2. command' = Idle \/ Skip \/ command' = [command EXCEPT !.step = "check"]
      BY <1>3 DEF ReadPublic
    <2>3. CASE command' = Idle
      BY <2>1, <2>3
    <2>4. CASE Skip
      BY <2>1, <2>4
    <2>5. CASE command' = [command EXCEPT !.step = "check"]
      BY <1>3, <2>1, <2>5 DEF ReadPublic
    <2> QED
      BY <2>2, <2>3, <2>4, <2>5
  <1>4. ASSUME NEW f \in File, NEW answers \in BOOLEAN, CheckVault(f, answers) PROVE VaultTypeOK'
    <2>1. UNCHANGED <<files, load, histories>>
      BY <1>4 DEF CheckVault
    <2>2. CASE Skip
      BY <2>1, <2>2
    <2>3. CASE ~Skip
      <3>1. /\ command.step = "check"
            /\ command' = [command EXCEPT !.step = "set key"]
        BY <1>4, <2>3 DEF CheckVault
      <3> QED
        BY <2>1, <3>1
    <2> QED
      BY <2>2, <2>3
  <1>5. ASSUME NEW f \in File, SetKey(f) PROVE VaultTypeOK'
    BY <1>5, FreshKeyIsOne DEF SetKey
  <1>6. ASSUME NEW f \in File, SetKeyFails(f) PROVE VaultTypeOK'
    BY <1>6 DEF SetKeyFails
  <1>7. ASSUME NEW f \in File, OpenStore(f) PROVE VaultTypeOK'
    BY <1>7 DEF OpenStore
  <1>8. ASSUME NEW f \in File, CloseStore(f) PROVE VaultTypeOK'
    BY <1>8 DEF CloseStore
  <1>9. ASSUME NEW f \in File, OpenPrivate(f) PROVE VaultTypeOK'
    BY <1>9 DEF OpenPrivate
  <1>10. ASSUME NEW f \in File, ClosePrivate(f) PROVE VaultTypeOK'
    BY <1>10 DEF ClosePrivate
  <1>11. ASSUME NEW f \in File, OpenPublic(f) PROVE VaultTypeOK'
    BY <1>11 DEF OpenPublic
  <1>12. ASSUME NEW f \in File, ClosePublic(f) PROVE VaultTypeOK'
    BY <1>12 DEF ClosePublic
  <1>13. CASE EndMigration
    BY <1>13 DEF EndMigration
  <1>14. CASE Crash
    <2>1. UNCHANGED <<files, load, replaced, unkeyed, keyChanges>> /\ command' = Idle
      BY <1>14 DEF Crash
    <2>2. crashes < MaxCrashes /\ crashes' = crashes + 1
      BY <1>14 DEF Crash
    <2>3. crashes' \in 0 .. MaxCrashes
      BY <2>2, OneMoreCrash
    <2> QED
      BY <2>1, <2>3
  <1>15. ASSUME NEW f \in File, NEW new \in Key \union {NoKey}, ChangeKey(f, new) PROVE VaultTypeOK'
    <2>1. keyChanges < MaxKeyChanges /\ keyChanges' = keyChanges + 1
      BY <1>15 DEF ChangeKey
    <2>2. keyChanges' \in 0 .. MaxKeyChanges
      BY <2>1, OneMoreKey
    <2>3. PICK lost \in BOOLEAN : unkeyed' = [unkeyed EXCEPT ![f] = lost]
      BY <1>15 DEF ChangeKey, Stored
    <2>4. key' = [key EXCEPT ![f] = new] /\ command = Idle
      BY <1>15 DEF ChangeKey
    <2>5. UNCHANGED <<public, private, store, ignored, command, load, replaced, crashes>>
      BY <1>15 DEF ChangeKey
    <2> QED
      BY <2>2, <2>3, <2>4, <2>5
  <1>16. ASSUME NEW f \in File, LoadPublic(f) PROVE VaultTypeOK'
    BY <1>16 DEF LoadPublic
  <1>17. ASSUME NEW f \in File, LoadPrivate(f) PROVE VaultTypeOK'
    <2>1. UNCHANGED <<files, command, histories>> /\ load.file \in File
      BY <1>17 DEF LoadPrivate
    <2>2. CASE \E r \in {"full", "empty", "throws"} : Loaded(r)
      BY ONLY VaultTypeOK, <2>1, <2>2, LoadedTyped
    <2>3. CASE load' = [load EXCEPT !.step = "key"]
      BY <2>1, <2>3
    <2> QED
      BY <1>17, <2>2, <2>3 DEF LoadPrivate
  <1>18. ASSUME NEW f \in File, NEW answers \in BOOLEAN, LoadKey(f, answers) PROVE VaultTypeOK'
    <2>1. UNCHANGED <<files, command, histories>> /\ load.file \in File
      BY <1>18 DEF LoadKey
    <2>2. CASE Loaded("throws")
      BY ONLY VaultTypeOK, <2>1, <2>2, LoadedTyped
    <2>3. CASE load' = [load EXCEPT !.step = "store", !.key = key[f]]
      BY <2>1, <2>3
    <2> QED
      BY ONLY <1>18, <2>2, <2>3 DEF LoadKey
  <1>19. ASSUME NEW f \in File, LoadStore(f) PROVE VaultTypeOK'
    <2>1. UNCHANGED <<files, command, histories>> /\ load.file \in File
      BY <1>19 DEF LoadStore
    <2>2. store[f] \in {NoneYet, Torn} \union Key
      OBVIOUS
    <2>3. \E r \in {"full", "partial", "empty", "throws"} : Loaded(r)
      <3> DEFINE result == CASE store[f] = NoneYet -> "throws"
                             [] store[f] = Torn -> "partial"
                             [] store[f] = load.key -> "full"
                             [] store[f] \in Key \ {load.key} -> "empty"
      <3>1. result \in {"full", "partial", "empty", "throws"}
        BY ONLY <2>2
      <3>2. Loaded(result)
        BY ONLY <1>19 DEF LoadStore
      <3> QED
        BY ONLY <3>1, <3>2
    <2> QED
      BY ONLY VaultTypeOK, <2>1, <2>3, LoadedTyped
  <1>20. CASE LoadOver
    BY <1>20 DEF LoadOver
  <1> HIDE DEF VaultInv, VaultTypeOK, WorkInv, StepsHaveFile, InWork, HasKey,
     MigrationStep, Idle, NotLoading, NoneYet, Torn, files, histories, Skip, Loaded
  <1>21. CASE UNCHANGED vaultVars
    BY <1>21, TypeStutters DEF VaultInv
  <1> QED
    BY <1>1, <1>2, <1>3, <1>4, <1>5, <1>6, <1>7, <1>8, <1>9, <1>10, <1>11,
       <1>12, <1>13, <1>14, <1>15, <1>16, <1>17, <1>18, <1>19, <1>20, <1>21, KeyChanges DEF VaultNext, Migrate, VaultInv

LEMMA WorkStep == VaultInv /\ [VaultNext]_vaultVars => WorkInv'
  <1> SUFFICES ASSUME VaultInv, [VaultNext]_vaultVars PROVE WorkInv'
    OBVIOUS
  <1> USE VaultAssumption DEF VaultInv, VaultTypeOK, WorkInv, StepsHaveFile, PublicLast, StoreFirst,
     MarkedReplaced, InWork, HasKey, HasStore, Idle, NoneYet, Torn, files, histories, Skip, Loaded, VaultExists
  <1>1. ASSUME NEW force \in BOOLEAN, StartMigration(force) PROVE WorkInv'
    BY <1>1 DEF StartMigration
  <1>2. ASSUME NEW f \in File, NextFile(f) PROVE WorkInv'
    BY <1>2 DEF NextFile
  <1>3. ASSUME NEW f \in File, ReadPublic(f) PROVE WorkInv'
    <2>1. UNCHANGED <<files, load, histories>>
      BY <1>3 DEF ReadPublic
    <2>2. command' = Idle \/ Skip \/ command' = [command EXCEPT !.step = "check"]
      BY <1>3 DEF ReadPublic
    <2>3. CASE command' = Idle
      BY <2>1, <2>3
    <2>4. CASE Skip
      BY <2>1, <2>4
    <2>5. CASE command' = [command EXCEPT !.step = "check"] /\ ~Skip /\ command' # Idle
      <3>1. public[f] = "inline" /\ command.file = f
        BY <1>3, <2>5 DEF ReadPublic
      <3>2. command'.step = "check" /\ command'.file = f /\ command'.key = NoKey
        BY <1>3, <2>5, <3>1 DEF ReadPublic
      <3> QED
        BY <2>1, <3>1, <3>2
    <2> QED
      BY <2>2, <2>3, <2>4, <2>5
  <1>4. ASSUME NEW f \in File, NEW answers \in BOOLEAN, CheckVault(f, answers) PROVE WorkInv'
    <2>1. UNCHANGED <<files, load, histories>>
      BY <1>4 DEF CheckVault
    <2>2. CASE Skip
      BY <2>1, <2>2
    <2>3. CASE ~Skip
      <3>1. /\ command.step = "check"
            /\ command' = [command EXCEPT !.step = "set key"]
        BY <1>4, <2>3 DEF CheckVault
      <3> QED
        BY <2>1, <3>1
    <2> QED
      BY <2>2, <2>3
  <1>5. ASSUME NEW f \in File, SetKey(f) PROVE WorkInv'
    BY <1>5, FreshKeyIsOne DEF SetKey
  <1>6. ASSUME NEW f \in File, SetKeyFails(f) PROVE WorkInv'
    BY <1>6 DEF SetKeyFails
  <1>7. ASSUME NEW f \in File, OpenStore(f) PROVE WorkInv'
    BY <1>7 DEF OpenStore
  <1>8. ASSUME NEW f \in File, CloseStore(f) PROVE WorkInv'
    BY <1>8 DEF CloseStore
  <1>9. ASSUME NEW f \in File, OpenPrivate(f) PROVE WorkInv'
    BY <1>9 DEF OpenPrivate
  <1>10. ASSUME NEW f \in File, ClosePrivate(f) PROVE WorkInv'
    BY <1>10 DEF ClosePrivate
  <1>11. ASSUME NEW f \in File, OpenPublic(f) PROVE WorkInv'
    BY <1>11 DEF OpenPublic
  <1>12. ASSUME NEW f \in File, ClosePublic(f) PROVE WorkInv'
    BY <1>12 DEF ClosePublic
  <1>13. CASE EndMigration
    BY <1>13 DEF EndMigration
  <1>14. CASE Crash
    BY <1>14 DEF Crash
  <1>15. ASSUME NEW f \in File, NEW new \in Key \union {NoKey}, ChangeKey(f, new) PROVE WorkInv'
    BY <1>15 DEF ChangeKey
  <1>16. ASSUME NEW f \in File, LoadPublic(f) PROVE WorkInv'
    BY <1>16 DEF LoadPublic
  <1>17. ASSUME NEW f \in File, LoadPrivate(f) PROVE WorkInv'
    BY <1>17 DEF LoadPrivate
  <1>18. ASSUME NEW f \in File, NEW answers \in BOOLEAN, LoadKey(f, answers) PROVE WorkInv'
    BY <1>18 DEF LoadKey
  <1>19. ASSUME NEW f \in File, LoadStore(f) PROVE WorkInv'
    BY <1>19 DEF LoadStore
  <1>20. CASE LoadOver
    BY <1>20 DEF LoadOver
  <1>21. CASE UNCHANGED vaultVars
    BY <1>21 DEF vaultVars
  <1> HIDE DEF VaultInv, VaultTypeOK, WorkInv, StepsHaveFile, PublicLast, StoreFirst,
     MarkedReplaced, InWork, HasKey, HasStore, Idle, NoneYet, Torn, files, histories, Skip, Loaded, VaultExists
  <1> QED
    BY <1>1, <1>2, <1>3, <1>4, <1>5, <1>6, <1>7, <1>8, <1>9, <1>10, <1>11,
       <1>12, <1>13, <1>14, <1>15, <1>16, <1>17, <1>18, <1>19, <1>20, <1>21, KeyChanges DEF VaultNext, Migrate, VaultInv

\* A step that changes no file but f, and leaves f sound.
LEMMA OneFile ==
  ASSUME VaultTypeOK, FileInv, NEW f \in File,
         \A g \in File : g # f =>
            /\ public'[g] = public[g] /\ private'[g] = private[g] /\ store'[g] = store[g]
            /\ key'[g] = key[g] /\ replaced'[g] = replaced[g] /\ unkeyed'[g] = unkeyed[g],
         public'[f] # "inline" =>
            private'[f] # NoneYet /\ ((store'[f] \in Key /\ store'[f] = key'[f]) \/ unkeyed'[f]),
         unkeyed'[f] => store'[f] # NoneYet,
         private'[f] = "complete" /\ ~replaced'[f] =>
            store'[f] \in Key /\ (store'[f] = key'[f] \/ unkeyed'[f])
  PROVE  FileInv'
  <1>1. ASSUME NEW g \in File
        PROVE  /\ public'[g] # "inline" => private'[g] # NoneYet
               /\ unkeyed'[g] => store'[g] # NoneYet
               /\ private'[g] = "complete" /\ ~replaced'[g] =>
                     store'[g] \in Key /\ (store'[g] = key'[g] \/ unkeyed'[g])
               /\ public'[g] = "inline" \/ (store'[g] \in Key /\ store'[g] = key'[g]) \/ unkeyed'[g]
    <2>1. CASE g = f
      BY <2>1
    <2>2. CASE g # f
      BY <2>2 DEF FileInv, PrivateFirst, UnkeyedVault, VaultWhole, InventoryNeverLost, Stored
    <2> QED
      BY <2>1, <2>2
  <1> QED
    BY <1>1 DEF FileInv, PrivateFirst, UnkeyedVault, VaultWhole, InventoryNeverLost, Stored

LEMMA FileStep == VaultInv /\ [VaultNext]_vaultVars => FileInv'
  <1> SUFFICES ASSUME VaultInv, [VaultNext]_vaultVars PROVE FileInv'
    OBVIOUS
  <1>0. VaultTypeOK /\ FileInv
    BY DEF VaultInv
  <1>1. CASE \/ \E force \in BOOLEAN : StartMigration(force)
             \/ \E f \in File : NextFile(f) \/ ReadPublic(f) \/ SetKeyFails(f)
             \/ \E f \in File, answers \in BOOLEAN : CheckVault(f, answers)
             \/ \E f \in File : LoadPublic(f) \/ LoadPrivate(f) \/ LoadStore(f)
             \/ \E f \in File, answers \in BOOLEAN : LoadKey(f, answers)
             \/ LoadOver \/ EndMigration \/ Crash \/ UNCHANGED vaultVars
    <2>1. UNCHANGED <<public, private, store, key, replaced, unkeyed>>
      BY <1>1 DEF StartMigration, NextFile, ReadPublic, CheckVault, SetKeyFails, LoadPublic, LoadPrivate,
                  LoadKey, LoadStore, LoadOver, EndMigration, Crash, files, histories, vaultVars
    <2> QED
      BY <1>0, <2>1 DEF FileInv, PrivateFirst, UnkeyedVault, VaultWhole, InventoryNeverLost, Stored
  \* The file in work, and what is done of it.
  <1>2. ASSUME NEW f \in File
        PROVE  /\ public[f] # "inline" => private[f] # NoneYet /\ (Stored(f) \/ unkeyed[f])
               /\ unkeyed[f] => store[f] # NoneYet
               /\ private[f] = "complete" /\ ~replaced[f] =>
                     store[f] \in Key /\ (store[f] = key[f] \/ unkeyed[f])
               /\ command.file = f /\ command.step \in InWork \ {"public torn"} => public[f] = "inline"
               /\ command.file = f /\ command.step \in HasKey => command.key \in Key /\ key[f] = command.key
               /\ command.file = f /\ command.step \in HasStore => Stored(f)
    <2>1. command.file = f /\ command.step \in HasKey => command.key \in Key /\ key[f] = command.key
      BY <1>0, VaultAssumption DEF VaultTypeOK, VaultInv, WorkInv, StepsHaveFile
    <2>2. command.file = f /\ command.step \in HasStore => Stored(f)
      BY <2>1 DEF VaultInv, WorkInv, StoreFirst, HasStore, Stored
    <2> QED
      BY <1>0, <2>1, <2>2 DEF FileInv, PrivateFirst, UnkeyedVault, VaultWhole, InventoryNeverLost,
                              VaultInv, WorkInv, PublicLast
  <1>3. ASSUME NEW f \in File, SetKey(f) PROVE FileInv'
    <2>1. /\ UNCHANGED <<public, private, store>> /\ key' = [key EXCEPT ![f] = FreshKey(f)]
          /\ replaced' = [replaced EXCEPT ![f] = @ \/ VaultExists(f)]
          /\ unkeyed' = [unkeyed EXCEPT ![f] = FALSE]
          /\ command.step = "set key" /\ command.file = f
      BY <1>3 DEF SetKey
    <2>2. /\ \A g \in File : g # f => key'[g] = key[g] /\ replaced'[g] = replaced[g]
                                      /\ unkeyed'[g] = unkeyed[g]
          /\ ~unkeyed'[f]
      BY <1>0, <2>1 DEF VaultTypeOK
    <2>3. key'[f] \in Key /\ replaced'[f] = (replaced[f] \/ VaultExists(f))
      BY <1>0, <2>1, FreshKeyIsOne DEF VaultTypeOK
    <2>4. public[f] = "inline" /\ (private[f] = "complete" => VaultExists(f))
      BY <1>2, <2>1 DEF InWork, VaultExists, NoneYet
    <2> QED
      BY <1>0, <2>1, <2>2, <2>3, <2>4, OneFile
  <1>4. ASSUME NEW f \in File, OpenStore(f) \/ CloseStore(f) PROVE FileInv'
    <2>1. /\ UNCHANGED <<public, private, key, replaced, unkeyed>> /\ command.file = f
          /\ \A g \in File : g # f => store'[g] = store[g]
      BY <1>0, <1>4 DEF OpenStore, CloseStore, VaultTypeOK, histories
    <2>2. public[f] = "inline" /\ command.key \in Key /\ key[f] = command.key
      BY <1>2, <1>4, <2>1 DEF OpenStore, CloseStore, InWork, HasKey
    <2>3. CASE OpenStore(f)
      <3>1. private[f] = "complete" => replaced[f]
        BY <2>3 DEF OpenStore, VaultInv, WorkInv, MarkedReplaced, VaultExists, NoneYet
      <3>2. store'[f] # NoneYet
        BY <1>0, <2>3 DEF OpenStore, VaultTypeOK, NoneYet, Torn
      <3> QED
        BY <1>0, <2>1, <2>2, <3>1, <3>2, OneFile
    <2>4. CASE CloseStore(f)
      <3>1. store'[f] = command.key
        BY <1>0, <2>4 DEF CloseStore, VaultTypeOK
      <3>2. store'[f] # NoneYet
        BY <2>2, <3>1, VaultAssumption DEF NoneYet
      <3> QED
        BY <1>0, <2>1, <2>2, <3>1, <3>2, OneFile
    <2> QED
      BY <1>4, <2>3, <2>4
  <1>5. ASSUME NEW f \in File, OpenPrivate(f) \/ ClosePrivate(f) PROVE FileInv'
    <2>1. /\ UNCHANGED <<public, store, key, replaced, unkeyed>> /\ command.file = f
          /\ \A g \in File : g # f => private'[g] = private[g]
      BY <1>0, <1>5 DEF OpenPrivate, ClosePrivate, VaultTypeOK, histories
    <2>2. public[f] = "inline" /\ Stored(f)
      BY <1>2, <1>5, <2>1 DEF OpenPrivate, ClosePrivate, InWork, HasKey, HasStore
    <2>3. store[f] \in Key /\ store[f] = key[f] /\ store[f] # NoneYet
      BY <2>2, VaultAssumption DEF Stored, NoneYet
    <2> QED
      BY <1>0, <2>1, <2>2, <2>3, OneFile
  <1>6. ASSUME NEW f \in File, OpenPublic(f) \/ ClosePublic(f) PROVE FileInv'
    <2>1. /\ UNCHANGED <<private, store, key, replaced, unkeyed>> /\ command.file = f
          /\ \A g \in File : g # f => public'[g] = public[g]
      BY <1>0, <1>6 DEF OpenPublic, ClosePublic, VaultTypeOK, histories
    <2>2. Stored(f) /\ private[f] # NoneYet
      BY <1>2, <1>6, <2>1 DEF OpenPublic, ClosePublic, InWork, HasKey, HasStore, VaultInv, WorkInv,
                              MarkedReplaced
    <2>3. store[f] \in Key /\ store[f] = key[f] /\ store[f] # NoneYet
      BY <2>2, VaultAssumption DEF Stored, NoneYet
    <2> QED
      BY <1>0, <2>1, <2>2, <2>3, OneFile
  <1>7. ASSUME NEW f \in File, NEW new \in Key \union {NoKey}, ChangeKey(f, new) PROVE FileInv'
    <2>1. /\ UNCHANGED <<public, private, store, replaced>>
          /\ \A g \in File : g # f => key'[g] = key[g] /\ unkeyed'[g] = unkeyed[g]
      BY <1>0, <1>7 DEF ChangeKey, VaultTypeOK
    <2>2. unkeyed'[f] = (unkeyed[f] \/ Stored(f))
      BY <1>0, <1>7 DEF ChangeKey, VaultTypeOK
    <2>3. Stored(f) => store[f] # NoneYet
      BY VaultAssumption DEF Stored, NoneYet
    <2>4. unkeyed'[f] => store'[f] # NoneYet
      BY <1>2, <2>1, <2>2, <2>3
    <2>5. public'[f] # "inline" => private'[f] # NoneYet /\ unkeyed'[f]
      BY <1>2, <2>1, <2>2
    <2>6. private'[f] = "complete" /\ ~replaced'[f] => store'[f] \in Key /\ unkeyed'[f]
      BY <1>2, <2>1, <2>2 DEF Stored
    <2> QED
      BY <1>0, <2>1, <2>4, <2>5, <2>6, OneFile
  <1> QED
    BY <1>0, <1>1, <1>3, <1>4, <1>5, <1>6, <1>7, KeyChanges DEF VaultNext, Migrate

\* What a load has seen stays so under a step of somebody else that keeps what
\* is whole, or marks as replaced what it does not keep.
LEMMA LoadWaits ==
  ASSUME VaultTypeOK, LoadInv, UNCHANGED load,
         \A f \in File : replaced[f] => replaced'[f],
         \A f \in File : private[f] # NoneYet => private'[f] # NoneYet,
         \A f \in File : private[f] = "complete" => private'[f] = "complete" \/ replaced'[f],
         \A f \in File : private[f] = "complete" => key'[f] = key[f] \/ replaced'[f] \/ unkeyed'[f],
         \A f \in File : unkeyed[f] => unkeyed'[f] \/ replaced'[f]
  PROVE  LoadInv'
  <1>1. load.step # "idle" => load.file \in File
    BY DEF VaultTypeOK
  <1>2. LoadSound'
    <2>1. load.step = "private" /\ ~load.inline => private'[load.file] # NoneYet
      BY <1>1 DEF LoadInv, LoadSound
    <2>2. load.step \in {"key", "store"} /\ ~replaced'[load.file] => private'[load.file] = "complete"
      BY <1>1 DEF LoadInv, LoadSound
    <2>3. load.step = "store" /\ ~replaced'[load.file] =>
             load.key = key'[load.file] \/ unkeyed'[load.file]
      BY <1>1 DEF LoadInv, LoadSound
    <2> QED
      BY <2>1, <2>2, <2>3 DEF LoadInv, LoadSound
  <1>3. LoadNeverWrong'
    BY <1>1 DEF LoadInv, LoadSound, LoadNeverWrong
  <1> QED
    BY <1>2, <1>3 DEF LoadInv

LEMMA LoadInvStep == VaultInv /\ [VaultNext]_vaultVars => LoadInv'
  <1> SUFFICES ASSUME VaultInv, [VaultNext]_vaultVars PROVE LoadInv'
    OBVIOUS
  <1>0. VaultTypeOK /\ LoadInv
    BY DEF VaultInv
  <1>1. CASE \/ \E force \in BOOLEAN : StartMigration(force)
             \/ \E f \in File : NextFile(f) \/ ReadPublic(f) \/ SetKeyFails(f)
             \/ \E f \in File, answers \in BOOLEAN : CheckVault(f, answers)
             \/ \E f \in File : OpenStore(f) \/ CloseStore(f) \/ OpenPublic(f) \/ ClosePublic(f)
             \/ EndMigration \/ Crash \/ UNCHANGED vaultVars
    <2>1. UNCHANGED <<private, key, replaced, unkeyed, load>>
      BY <1>1 DEF StartMigration, NextFile, ReadPublic, CheckVault, SetKeyFails, OpenStore, CloseStore,
                  OpenPublic, ClosePublic, EndMigration, Crash, files, histories, vaultVars
    <2> QED
      BY <1>0, <2>1, LoadWaits
  <1>2. ASSUME NEW f \in File, SetKey(f) PROVE LoadInv'
    <2>1. /\ UNCHANGED <<private, load>> /\ replaced' = [replaced EXCEPT ![f] = @ \/ VaultExists(f)]
          /\ key' = [key EXCEPT ![f] = FreshKey(f)] /\ unkeyed' = [unkeyed EXCEPT ![f] = FALSE]
      BY <1>2 DEF SetKey
    <2>2. \A g \in File : g # f => key'[g] = key[g] /\ replaced'[g] = replaced[g]
                                   /\ unkeyed'[g] = unkeyed[g]
      BY <1>0, <2>1 DEF VaultTypeOK
    <2>3. replaced'[f] = (replaced[f] \/ VaultExists(f))
      BY <1>0, <2>1 DEF VaultTypeOK
    <2>4. private[f] = "complete" \/ unkeyed[f] => VaultExists(f)
      BY DEF VaultExists, NoneYet, VaultInv, FileInv, UnkeyedVault
    <2> QED
      BY <1>0, <2>1, <2>2, <2>3, <2>4, LoadWaits
  <1>3. ASSUME NEW f \in File, OpenPrivate(f) \/ ClosePrivate(f) PROVE LoadInv'
    <2>1. UNCHANGED <<key, replaced, unkeyed, load>>
      BY <1>3 DEF OpenPrivate, ClosePrivate, histories
    <2>2. \A g \in File : g # f => private'[g] = private[g]
      BY <1>0, <1>3 DEF OpenPrivate, ClosePrivate, VaultTypeOK
    <2>3. private'[f] = "complete" \/ (OpenPrivate(f) /\ private'[f] = Torn)
      BY <1>0, <1>3 DEF OpenPrivate, ClosePrivate, VaultTypeOK
    <2>4. OpenPrivate(f) /\ private[f] # NoneYet => replaced[f]
      BY DEF OpenPrivate, VaultInv, WorkInv, MarkedReplaced
    <2>5. NoneYet \notin {Torn, "complete"}
      BY DEF NoneYet, Torn
    <2> QED
      BY <1>0, <2>1, <2>2, <2>3, <2>4, <2>5, LoadWaits
  <1>4. ASSUME NEW f \in File, NEW new \in Key \union {NoKey}, ChangeKey(f, new) PROVE LoadInv'
    <2>1. /\ UNCHANGED <<private, replaced, load>>
          /\ \A g \in File : g # f => key'[g] = key[g] /\ unkeyed'[g] = unkeyed[g]
      BY <1>0, <1>4 DEF ChangeKey, VaultTypeOK
    <2>2. unkeyed'[f] = (unkeyed[f] \/ Stored(f))
      BY <1>0, <1>4 DEF ChangeKey, VaultTypeOK
    <2>3. private[f] = "complete" => unkeyed'[f] \/ replaced[f]
      BY <2>2 DEF VaultInv, FileInv, VaultWhole, Stored
    <2> QED
      BY <1>0, <2>1, <2>2, <2>3, LoadWaits
  <1>5. ASSUME NEW f \in File, LoadPublic(f) PROVE LoadInv'
    <2>1. UNCHANGED <<public, private>> /\ load'.file = f
      BY <1>5 DEF LoadPublic, files, NotLoading
    <2>2. CASE public[f] = Torn
      <3>1. load'.step = "over" /\ load'.result = "throws"
        BY <1>5, <2>2 DEF LoadPublic, NotLoading
      <3> QED
        BY <3>1 DEF LoadInv, LoadSound, LoadNeverWrong
    <2>3. CASE public[f] # Torn
      <3>1. /\ load'.step = "private" /\ load'.result = "none"
            /\ load'.inline = (public[f] = "inline")
        BY <1>5, <2>3 DEF LoadPublic, NotLoading
      <3>2. public[f] # "inline" => private[f] # NoneYet
        BY DEF VaultInv, FileInv, PrivateFirst
      <3> QED
        BY <2>1, <3>1, <3>2 DEF LoadInv, LoadSound, LoadNeverWrong
    <2> QED
      BY <2>2, <2>3
  <1>6. ASSUME NEW result \in {"full", "throws"}, Loaded(result) PROVE LoadInv'
    <2>1. load'.step = "over" /\ load'.result = result
      BY <1>6 DEF Loaded, NotLoading
    <2> QED
      BY <1>6, <2>1 DEF LoadInv, LoadSound, LoadNeverWrong
  <1>7. ASSUME NEW f \in File, LoadPrivate(f) PROVE LoadInv'
    <2>1. /\ load.step = "private" /\ load.file = f /\ load.result = "none"
          /\ UNCHANGED <<private, replaced, unkeyed>>
      BY <1>0, <1>7 DEF LoadPrivate, files, histories, LoadInv, LoadSound, VaultTypeOK
    <2>2. CASE private[f] = NoneYet
      <3>1. load.inline
        BY <1>0, <2>1, <2>2 DEF LoadInv, LoadSound
      <3> QED
        BY <1>6, <1>7, <2>2, <3>1 DEF LoadPrivate, NoneYet
    <2>3. CASE private[f] = Torn
      BY <1>6, <1>7, <2>3 DEF LoadPrivate, NoneYet, Torn
    <2>4. CASE private[f] = "complete"
      <3>1. load' = [load EXCEPT !.step = "key"]
        BY <1>7, <2>4 DEF LoadPrivate, NoneYet, Torn
      <3>2. load'.step = "key" /\ load'.file = f /\ load'.result = "none"
        BY <1>0, <2>1, <3>1 DEF VaultTypeOK
      <3> QED
        BY <2>1, <2>4, <3>2 DEF LoadInv, LoadSound, LoadNeverWrong
    <2> QED
      BY <1>0, <2>2, <2>3, <2>4 DEF VaultTypeOK
  <1>8. ASSUME NEW f \in File, NEW answers \in BOOLEAN, LoadKey(f, answers) PROVE LoadInv'
    <2>1. /\ load.step = "key" /\ load.file = f /\ load.result = "none"
          /\ UNCHANGED <<private, key, replaced, unkeyed>>
      BY <1>0, <1>8 DEF LoadKey, files, histories, LoadInv, LoadSound, VaultTypeOK
    <2>2. CASE ~HasMasterKey(f, answers)
      BY <1>6, <1>8, <2>2 DEF LoadKey
    <2>3. CASE HasMasterKey(f, answers)
      <3>1. load' = [load EXCEPT !.step = "store", !.key = key[f]]
        BY <1>8, <2>3 DEF LoadKey
      <3>2. load'.step = "store" /\ load'.file = f /\ load'.result = "none" /\ load'.key = key[f]
        BY <1>0, <2>1, <3>1 DEF VaultTypeOK
      <3>3. ~replaced[f] => private[f] = "complete"
        BY <1>0, <2>1 DEF LoadInv, LoadSound
      <3> QED
        BY <2>1, <3>2, <3>3 DEF LoadInv, LoadSound, LoadNeverWrong
    <2> QED
      BY <2>2, <2>3
  <1>9. ASSUME NEW f \in File, LoadStore(f) PROVE LoadInv'
    <2>1. load.step = "store" /\ load.file = f /\ UNCHANGED <<replaced, unkeyed>>
      BY <1>9 DEF LoadStore, histories
    <2>2. load'.step = "over" /\ load'.file = f
      BY <1>9, <2>1 DEF LoadStore, Loaded, NotLoading
    <2>3. CASE replaced[f]
      BY <2>1, <2>2, <2>3 DEF LoadInv, LoadSound, LoadNeverWrong
    <2>4. CASE ~replaced[f]
      <3>1. private[f] = "complete" /\ (load.key = key[f] \/ unkeyed[f])
        BY <1>0, <2>1, <2>4 DEF LoadInv, LoadSound
      <3>2. store[f] \in Key /\ (store[f] = load.key \/ unkeyed[f])
        BY <2>4, <3>1 DEF VaultInv, FileInv, VaultWhole
      <3>3. CASE store[f] = load.key
        <4>1. Loaded("full")
          BY <1>9, <3>2, <3>3, VaultAssumption DEF LoadStore, NoneYet, Torn
        <4> QED
          BY <1>6, <4>1
      <3>4. CASE store[f] # load.key
        <4>1. Loaded("empty")
          BY <1>9, <3>2, <3>4, VaultAssumption DEF LoadStore, NoneYet, Torn
        <4>2. load'.result = "empty"
          BY <4>1 DEF Loaded, NotLoading
        <4> QED
          BY <2>1, <2>2, <3>2, <3>4, <4>2 DEF LoadInv, LoadSound, LoadNeverWrong
      <3> QED
        BY <3>3, <3>4
    <2> QED
      BY <2>3, <2>4
  <1>10. CASE LoadOver
    <2>1. load'.step = "idle" /\ load'.result = "none"
      BY <1>10 DEF LoadOver, NotLoading
    <2> QED
      BY <2>1 DEF LoadInv, LoadSound, LoadNeverWrong
  <1> QED
    BY <1>0, <1>1, <1>2, <1>3, <1>4, <1>5, <1>7, <1>8, <1>9, <1>10, KeyChanges DEF VaultNext, Migrate

LEMMA VaultStepInv == VaultInv /\ [VaultNext]_vaultVars => VaultInv'
  BY TypeStep, WorkStep, FileStep, LoadInvStep DEF VaultInv

LEMMA VaultIsInductive == VaultSpec => []VaultInv
  BY VaultInitInv, VaultStepInv, PTL DEF VaultSpec

-----------------------------------------------------------------------------
(* Every reachable state of the migration, the keychain and a load is of   *)
(* its type, and a command that works with a key works with the one in the *)
(* keychain (migrate-vault.ts:77-140, loader.ts:61-91).                    *)
THEOREM VaultTypeCorrect == VaultSpec => []VaultTypeOK
  BY VaultIsInductive, PTL DEF VaultInv

(* However often a migration dies and is run again, with or without force, *)
(* each inventory is in its public file or in a whole store whose key is   *)
(* in the keychain (migrate-vault.ts:102-140), unless master-key took the  *)
(* key of a whole vault away, by delete or by an init that the keychain    *)
(* did not answer (master-key.ts:63-88).                                   *)
THEOREM InventoryKept == VaultSpec => []InventoryNeverLost
  BY VaultIsInductive, PTL DEF VaultInv, FileInv

(* A load that runs between any two steps of a migration or of master-key  *)
(* gives the whole inventory or throws: part of it only once a forced      *)
(* migration replaced the key of a vault, and nothing only then or once    *)
(* master-key took the key of a whole vault away (loader.ts:61-91).        *)
THEOREM LoadsNeverWrong == VaultSpec => []LoadNeverWrong
  BY VaultIsInductive, PTL DEF VaultInv, LoadInv
=============================================================================
