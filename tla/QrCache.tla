------------------------------- MODULE QrCache --------------------------------
(***************************************************************************)
(* `sp qr`: the QR code of a domain's master token (src/src/cli/qr.ts) and *)
(* the images that are kept for it (src/src/visual/qr-cache.ts).  Several  *)
(* processes share the directory, the tokens are replaced as they run, and *)
(* a process may be killed with a file half written.                       *)
(*                                                                         *)
(* A token is the number of times the domain's token was replaced before   *)
(* it; the token of the legacy name is an old one.  What an image looks    *)
(* like but for its token is left out, as it is from its name.             *)
(***************************************************************************)
EXTENDS Naturals, FiniteSets

CONSTANTS
    QrDomain,
    Command,         \* processes that run `sp qr`, one command each
    MaxRotations,      \* bound on the tokens replaced or deleted
    MaxKills,        \* bound on killed processes
    NoImage,
    HalfImage        \* a file that is not all there

ASSUME QrAssumption ==
    /\ QrDomain # {} /\ MaxRotations \in Nat /\ MaxKills \in Nat
    /\ {NoImage, HalfImage} \intersect Nat = {}

VARIABLES
    master,      \* token[d]: what the keychain has under each name
    image,      \* image[i]: the file of image i
    index,      \* mapping.json of the directory
    mapping,    \* mapping[d]: mapping.json of the domain
    qr,         \* qr[c]: the commands
    held,       \* history: held[c]: the tokens of its domain since c began
    rotations,
    overlapped, \* history: a save of an index met another one
    kills

qrVars == <<master, image, index, mapping, qr, held, rotations, overlapped, kills>>

Token == 0 .. 1 + MaxRotations
NoMaster == MaxRotations + 2
Name == {"master", "legacy"}

\* What Bun.hash(`${domain}:${token}`) tells apart.
Image == QrDomain \X Token

\* Faulty variant: the name of an image leaves the token out.
ImageOfDomain(d, t) == <<d, 0>>

ImageOf(d, t) == <<d, t>>

NotBegun == [at |-> "none", domain |-> CHOOSE d \in QrDomain : TRUE,
             token |-> NoMaster, shown |-> NoMaster, index |-> {}]

Saving == {"image torn", "image", "read", "index torn", "index", "mapping torn"}
QrOver == {"shown", "exit 1", "killed"}

QrTypeOK ==
    /\ master \in [QrDomain -> [Name -> Token \union {NoMaster}]]
    /\ image \in [Image -> {NoImage, HalfImage} \union Token]
    /\ index.torn \in BOOLEAN /\ index.maps \subseteq Image
    /\ mapping \in [QrDomain -> {NoImage, HalfImage} \union Token]
    /\ \A c \in Command :
        /\ qr[c].at \in {"none", "begun", "token", "cached", "missing", "drawn"} \union Saving \union QrOver
        /\ qr[c].domain \in QrDomain
        /\ {qr[c].token, qr[c].shown} \subseteq Token \union {NoMaster}
        /\ qr[c].index \subseteq Image
        /\ held[c] \subseteq Token
    /\ overlapped \in BOOLEAN
    /\ kills \in 0 .. MaxKills /\ rotations \in 0 .. MaxRotations

QrInit ==
    /\ master = [d \in QrDomain |-> [n \in Name |-> IF n = "master" THEN 1 ELSE 0]]
    /\ image = [i \in Image |-> NoImage]
    /\ index = [torn |-> FALSE, maps |-> {}]
    /\ mapping = [d \in QrDomain |-> NoImage]
    /\ qr = [c \in Command |-> NotBegun]
    /\ held = [c \in Command |-> {}]
    /\ overlapped = FALSE
    /\ kills = 0 /\ rotations = 0

-----------------------------------------------------------------------------
SetToken(d, t) ==
    /\ rotations < MaxRotations
    /\ rotations' = rotations + 1
    /\ master' = [master EXCEPT ![d]["master"] = t]
    /\ held' = [c \in Command |-> IF qr[c].at \notin {"none"} \union QrOver /\ qr[c].domain = d
                                    THEN held[c] \union ({t} \ {NoMaster}) ELSE held[c]]
    /\ UNCHANGED <<image, index, mapping, qr, overlapped, kills>>

\* A migration by force, or `vault`, replaces the master token.
RotateToken(d) ==
    /\ master[d]["master"] # NoMaster
    /\ SetToken(d, master[d]["master"] + 1)

DeleteToken(d) ==
    /\ master[d]["master"] # NoMaster
    /\ SetToken(d, NoMaster)

-----------------------------------------------------------------------------
(* runDomainQr                                                             *)

QrGoes(c, at) == qr' = [qr EXCEPT ![c].at = at]
QrEnds(c, how) == qr' = [qr EXCEPT ![c] = [NotBegun EXCEPT !.at = how]]
QrShows(c, shown) ==
    qr' = [qr EXCEPT ![c] = [NotBegun EXCEPT !.at = "shown", !.shown = shown]]

\* Arguments that are refused, a registry that does not load and an unknown
\* domain end the command before it reads a token.  The format that is asked
\* for matters only after that.
BeginQr(c, d) ==
    /\ qr[c].at = "none"
    /\ qr' = [qr EXCEPT ![c] = [NotBegun EXCEPT !.at = "begun", !.domain = d]]
    /\ held' = [held EXCEPT ![c] = {master[d][n] : n \in Name} \ {NoMaster}]
    /\ UNCHANGED <<master, image, index, mapping, rotations, overlapped, kills>>

RefuseQr(c) ==
    /\ qr[c].at = "begun"
    /\ QrEnds(c, "exit 1")
    /\ UNCHANGED <<master, image, index, mapping, held, rotations, overlapped, kills>>

\* The first name that has a token.  A name that the keychain does not answer
\* for counts as one that has none.
FindToken(c, answered) ==
    LET found == {n \in answered : master[qr[c].domain][n] # NoMaster}
        name == IF "master" \in found THEN "master" ELSE "legacy"
    IN /\ qr[c].at = "begun"
       /\ IF found = {}
            THEN QrEnds(c, "exit 1")
            ELSE qr' = [qr EXCEPT ![c].at = "token", ![c].token = master[qr[c].domain][name]]
       /\ UNCHANGED <<master, image, index, mapping, held, rotations, overlapped, kills>>

Mine(c) == ImageOf(qr[c].domain, qr[c].token)

\* A terminal or an SVG has its code drawn anew.
ShowDrawn(c) ==
    /\ qr[c].at = "token"
    /\ QrShows(c, qr[c].token)
    /\ UNCHANGED <<master, image, index, mapping, held, rotations, overlapped, kills>>

\* QRCache.ensure: a file that is there is the image.
GetCached(c) ==
    /\ qr[c].at = "token"
    /\ QrGoes(c, IF image[Mine(c)] = NoImage THEN "missing" ELSE "cached")
    /\ UNCHANGED <<master, image, index, mapping, held, rotations, overlapped, kills>>

\* The image is decoded when it is written to its destination.
ShowCached(c) ==
    /\ qr[c].at = "cached"
    /\ IF image[Mine(c)] \in Token
         THEN QrShows(c, image[Mine(c)])
         ELSE QrEnds(c, "exit 1")
    /\ UNCHANGED <<master, image, index, mapping, held, rotations, overlapped, kills>>

-----------------------------------------------------------------------------
(* QRCache.save: the image, the index of the directory, the domain's own.  *)

OpenImage(c) ==
    /\ qr[c].at = "missing"
    /\ image' = [image EXCEPT ![Mine(c)] = HalfImage]
    /\ QrGoes(c, "image torn")
    /\ UNCHANGED <<master, index, mapping, held, rotations, overlapped, kills>>

CloseImage(c) ==
    /\ qr[c].at = "image torn"
    /\ image' = [image EXCEPT ![Mine(c)] = qr[c].token]
    /\ QrGoes(c, "image")
    /\ UNCHANGED <<master, index, mapping, held, rotations, overlapped, kills>>

Indexing == {"read", "index torn"}

\* An index that does not parse is an empty one.
ReadIndex(c) ==
    /\ qr[c].at = "image"
    /\ qr' = [qr EXCEPT ![c].at = "read",
                        ![c].index = IF index.torn THEN {} ELSE index.maps]
    /\ overlapped' = (overlapped \/ \E other \in Command : qr[other].at \in Indexing)
    /\ UNCHANGED <<master, image, index, mapping, held, rotations, kills>>

OpenIndex(c) ==
    /\ qr[c].at = "read"
    /\ index' = [torn |-> TRUE, maps |-> {}]
    /\ QrGoes(c, "index torn")
    /\ UNCHANGED <<master, image, mapping, held, rotations, overlapped, kills>>

CloseIndex(c) ==
    /\ qr[c].at = "index torn"
    /\ index' = [torn |-> FALSE, maps |-> qr[c].index \union {Mine(c)}]
    /\ QrGoes(c, "index")
    /\ UNCHANGED <<master, image, mapping, held, rotations, overlapped, kills>>

OpenMapping(c) ==
    /\ qr[c].at = "index"
    /\ mapping' = [mapping EXCEPT ![qr[c].domain] = HalfImage]
    /\ QrGoes(c, "mapping torn")
    /\ UNCHANGED <<master, image, index, held, rotations, overlapped, kills>>

CloseMapping(c) ==
    /\ qr[c].at = "mapping torn"
    /\ mapping' = [mapping EXCEPT ![qr[c].domain] = qr[c].token]
    /\ QrGoes(c, "drawn")
    /\ UNCHANGED <<master, image, index, held, rotations, overlapped, kills>>

\* The image that was saved is the one in memory.
ShowSaved(c) ==
    /\ qr[c].at = "drawn"
    /\ QrShows(c, qr[c].token)
    /\ UNCHANGED <<master, image, index, mapping, held, rotations, overlapped, kills>>

KillQr(c) ==
    /\ qr[c].at \in Saving /\ kills < MaxKills
    /\ QrEnds(c, "killed")
    /\ kills' = kills + 1
    /\ UNCHANGED <<master, image, index, mapping, held, rotations, overlapped>>

Save(c) ==
    \/ OpenImage(c) \/ CloseImage(c)
    \/ ReadIndex(c) \/ OpenIndex(c) \/ CloseIndex(c)
    \/ OpenMapping(c) \/ CloseMapping(c)

QrNext ==
    \/ \E d \in QrDomain : RotateToken(d) \/ DeleteToken(d)
    \/ \E c \in Command, d \in QrDomain : BeginQr(c, d)
    \/ \E c \in Command, answered \in SUBSET Name : FindToken(c, answered)
    \/ \E c \in Command : RefuseQr(c) \/ ShowDrawn(c) \/ GetCached(c) \/ ShowCached(c)
    \/ \E c \in Command : Save(c)
    \/ \E c \in Command : ShowSaved(c) \/ KillQr(c)

QrSpec == QrInit /\ [][QrNext]_qrVars

-----------------------------------------------------------------------------
(* A code that is shown or written to a file holds a token that its domain *)
(* had at some time since the command began, from whatever process the     *)
(* image is, however tokens are replaced and images half written           *)
(* (qr-cache.ts:71-85, 235-265, qr.ts:220-257).                            *)
QrIsCurrent == \A c \in Command : qr[c].at = "shown" => qr[c].shown \in held[c]

(* The index loses no image: unless two saves of it overlapped or a        *)
(* process was killed in a save, each image but those being saved is in    *)
(* the index, and so is the token a domain's own mapping has               *)
(* (qr-cache.ts:135-165).                                                  *)
IndexIsWhole ==
    (~overlapped /\ kills = 0) =>
        LET unsaved == {Mine(c) : c \in {x \in Command : qr[x].at \in Saving}}
        IN \A d \in QrDomain, t \in Token :
              /\ image[<<d, t>>] = t => <<d, t>> \in unsaved \/ index.torn \/ <<d, t>> \in index.maps
              /\ mapping[d] = t => index.torn \/ <<d, t>> \in index.maps

(* What can be relied on of `sp qr` and of its images on disk.             *)
QrCommandsHold == QrIsCurrent /\ IndexIsWhole
=============================================================================
