---------------------------- MODULE Presentations ----------------------------
(***************************************************************************)
(* Commercial presentations: drafts and published versions, the clients    *)
(* they are made for, the public links and the PDF of a version, which is  *)
(* rendered once and kept in the storage. Proposals write clients by the   *)
(* same rules; only what presentations write is in this module.            *)
(*                                                                         *)
(* SaveDraft and Publish are serializable transactions and one step each;  *)
(* saving and publishing is both of them, one after the other. A download  *)
(* is four calls of their own: the list, the version, the storage, and the *)
(* storage again when the PDF had to be rendered.                          *)
(***************************************************************************)
EXTENDS Naturals, FiniteSets

CONSTANTS
    Users,
    ReadAll,        \* users with presentation.read_all
    Publishers,     \* users with presentation.publish
    Presentations, Clients,
    Cnpjs,          \* registration numbers clients are known by
    Contents,       \* what a form may say
    Requests,       \* requests that may be under way at once
    MaxVersion,     \* bound: versions of a presentation
    Nothing         \* no owner, client, number or content

ASSUME PresentationsAssumption ==
    /\ ReadAll \subseteq Users /\ Publishers \subseteq Users
    /\ MaxVersion \in Nat \ {0}
    /\ Nothing \notin Users \cup Clients \cup Cnpjs \cup Contents \cup Presentations

VARIABLES
    presentations, versions, clients,   \* rows
    cache,          \* the PDF stored under the key of each version
    requests

presentationsVars == <<presentations, versions, clients, cache, requests>>

Numbers == 1 .. MaxVersion
NoPresentation == [owner |-> Nothing, client |-> Nothing, title |-> Nothing, current |-> 0]
NoVersion == [content |-> Nothing, published |-> FALSE]
NoClient == [owner |-> Nothing, cnpj |-> Nothing, writer |-> Nothing]
NoRequest == [step |-> "idle", user |-> Nothing, presentation |-> Nothing, version |-> 0,
              content |-> Nothing, overtaken |-> FALSE]

PresentationsTypeOK ==
    /\ presentations \in [Presentations ->
            [owner : Users \cup {Nothing}, client : Clients \cup {Nothing},
             title : Contents \cup {Nothing}, current : 0 .. MaxVersion]]
    /\ versions \in [Presentations -> [Numbers ->
            [content : Contents \cup {Nothing}, published : BOOLEAN]]]
    /\ clients \in [Clients -> [owner : Users \cup {Nothing}, cnpj : Cnpjs \cup {Nothing},
                                writer : Users \cup {Nothing}]]
    /\ cache \in [Presentations -> [Numbers -> Contents \cup {Nothing}]]
    /\ requests \in [Requests ->
            [step : {"idle", "publish", "load", "fetch", "render"}, user : Users \cup {Nothing},
             presentation : Presentations \cup {Nothing}, version : 0 .. MaxVersion,
             content : Contents \cup {Nothing}, overtaken : BOOLEAN]]
    /\ \A r \in Requests : requests[r].step # "idle" =>
            /\ requests[r].presentation \in Presentations /\ requests[r].version \in Numbers
            /\ versions[requests[r].presentation][requests[r].version].content # Nothing

PresentationsInit ==
    /\ presentations = [p \in Presentations |-> NoPresentation]
    /\ versions = [p \in Presentations |-> [n \in Numbers |-> NoVersion]]
    /\ clients = [c \in Clients |-> NoClient]
    /\ cache = [p \in Presentations |-> [n \in Numbers |-> Nothing]]
    /\ requests = [r \in Requests |-> NoRequest]

----------------------------------------------------------------------------
(* Helpers *)

AtStep(r, step) == requests[r].step = step
End(r) == requests' = [requests EXCEPT ![r] = NoRequest]

Exists(p) == presentations[p].owner # Nothing
MayEdit(u, p) == u \in ReadAll \/ presentations[p].owner = u
Stored(p, n) == versions[p][n].content # Nothing

----------------------------------------------------------------------------
(* SaveDraft *)

\* presentationInputFromForm: whether the form names a client, and its number.
Forms == [content : Contents, named : BOOLEAN, cnpj : Cnpjs \cup {Nothing}]

\* The client of a new presentation: the one of this user with the number in
\* the form, or a new one when the form names it.
KnownTo(u, cnpj) == {c \in Clients : cnpj # Nothing /\ clients[c].cnpj = cnpj /\ clients[c].owner = u}
Create(u, p, form) ==
    /\ ~Exists(p)
    /\ \E client \in Clients \cup {Nothing} :
          /\ IF KnownTo(u, form.cnpj) # {} THEN client \in KnownTo(u, form.cnpj)
             ELSE IF form.named THEN client \in Clients /\ clients[client] = NoClient
             ELSE client = Nothing
          /\ presentations' = [presentations EXCEPT ![p] =
                [NoPresentation EXCEPT !.owner = u, !.client = client, !.title = form.content]]
          /\ clients' = IF ~form.named THEN clients
                        ELSE IF KnownTo(u, form.cnpj) # {} THEN [clients EXCEPT ![client].writer = u]
                        ELSE [clients EXCEPT ![client] = [owner |-> u, cnpj |-> form.cnpj, writer |-> u]]

\* The form overwrites the client, its number included. Two clients of one owner
\* never have the same number: then nothing is saved.
Update(u, p, form) ==
    /\ Exists(p) /\ MayEdit(u, p)
    /\ LET client == presentations[p].client
       IN IF client # Nothing /\ form.named
          THEN /\ KnownTo(clients[client].owner, form.cnpj) \subseteq {client}
               /\ clients' = [clients EXCEPT ![client].cnpj = form.cnpj, ![client].writer = u]
          ELSE UNCHANGED clients
    /\ presentations' = [presentations EXCEPT ![p].title = form.content]

\* The version a save writes: the draft, or a new one with the next number.
AlwaysNext(p, n) == n = Cardinality({k \in Numbers : Stored(p, k)}) + 1   \* mutant
IsSaveTarget(p, n) ==
    LET drafts == {k \in Numbers : Stored(p, k) /\ ~versions[p][k].published}
    IN IF drafts # {} THEN n \in drafts /\ \A k \in drafts : k <= n
       ELSE n = Cardinality({k \in Numbers : Stored(p, k)}) + 1

\* Whoever is about to publish that version will publish this content.
Overtaking(p, n) ==
    [q \in Requests |-> IF AtStep(q, "publish") /\ requests[q].presentation = p /\ requests[q].version = n
                        THEN [requests[q] EXCEPT !.overtaken = TRUE] ELSE requests[q]]

SavePresentation(r) ==
    /\ AtStep(r, "idle")
    /\ \E u \in Users, p \in Presentations, form \in Forms, n \in Numbers :
          /\ Create(u, p, form) \/ Update(u, p, form)
          /\ IsSaveTarget(p, n)
          /\ versions' = [versions EXCEPT ![p][n] = [content |-> form.content, published |-> FALSE]]
          /\ requests' \in {Overtaking(p, n)} \cup
                {[Overtaking(p, n) EXCEPT ![r] =
                    [step |-> "publish", user |-> u, presentation |-> p, version |-> n,
                     content |-> form.content, overtaken |-> FALSE]] : v \in Publishers \cap {u}}
    /\ UNCHANGED cache

----------------------------------------------------------------------------
(* Publish: by the id of the version that was saved *)

NewestSaved(r) ==                                           \* mutant: whatever is the draft now
    CHOOSE n \in Numbers : IF \E k \in Numbers : Stored(requests[r].presentation, k)
                                                  /\ ~versions[requests[r].presentation][k].published
                           THEN Stored(requests[r].presentation, n)
                                    /\ ~versions[requests[r].presentation][n].published
                           ELSE n = requests[r].version
Saved(r) == requests[r].version
Publish(r) ==
    /\ AtStep(r, "publish")
    /\ LET p == requests[r].presentation
           n == Saved(r)
       IN IF versions[p][n].published \/ ~MayEdit(requests[r].user, p)
          THEN UNCHANGED <<versions, presentations>>
          ELSE /\ versions' = [versions EXCEPT ![p][n].published = TRUE]
               /\ presentations' = [presentations EXCEPT ![p].current = n]
    /\ End(r)
    /\ UNCHANGED <<clients, cache>>

----------------------------------------------------------------------------
(* downloadPresentationPDF *)

\* The list has the link of the current version, when there is one.
Listed(u, p) == Exists(p) /\ MayEdit(u, p) /\ presentations[p].current # 0
StartDownload(r) ==
    /\ AtStep(r, "idle")
    /\ \E u \in Users, p \in Presentations :
          /\ Listed(u, p)
          /\ requests' = [requests EXCEPT ![r] =
                [NoRequest EXCEPT !.step = "load", !.presentation = p,
                                  !.version = presentations[p].current]]
    /\ UNCHANGED <<presentations, versions, clients, cache>>

\* PublishedByToken refuses a link that another publication has outdated.
LoadPublished(r) ==
    /\ AtStep(r, "load")
    /\ LET p == requests[r].presentation
           n == requests[r].version
       IN IF presentations[p].current = n
          THEN requests' = [requests EXCEPT ![r].step = "fetch", ![r].content = versions[p][n].content]
          ELSE End(r)
    /\ UNCHANGED <<presentations, versions, clients, cache>>

\* A read that fails is answered as if nothing were stored.
Fetch(r) ==
    /\ AtStep(r, "fetch")
    /\ \/ cache[requests[r].presentation][requests[r].version] # Nothing /\ End(r)
       \/ requests' = [requests EXCEPT ![r].step = "render"]
    /\ UNCHANGED <<presentations, versions, clients, cache>>

CurrentKey(r) == presentations[requests[r].presentation].current    \* mutant
CacheKey(r) == requests[r].version
Store(r) ==
    /\ AtStep(r, "render")
    /\ cache' = [cache EXCEPT ![requests[r].presentation][CacheKey(r)] = requests[r].content]
    /\ End(r)
    /\ UNCHANGED <<presentations, versions, clients>>

----------------------------------------------------------------------------

\* A statement or a call fails, the client leaves, the process stops.
EndEarly(r) == ~AtStep(r, "idle") /\ End(r) /\ UNCHANGED <<presentations, versions, clients, cache>>

PresentationsNext ==
    \E r \in Requests : \/ SavePresentation(r) \/ Publish(r) \/ EndEarly(r)
                        \/ StartDownload(r) \/ LoadPublished(r) \/ Fetch(r) \/ Store(r)

PresentationsSpec == PresentationsInit /\ [][PresentationsNext]_presentationsVars

----------------------------------------------------------------------------
(* What a customer is shown who follows the link of a version: PublicByToken *)

RowTitle(p, n) == presentations[p].title                    \* mutant
TitleShown(p, n) == versions[p][n].content
Page(p, n) == [title |-> TitleShown(p, n), content |-> versions[p][n].content]
Public(p, n) == versions[p][n].published /\ presentations[p].current # 0

----------------------------------------------------------------------------
(* Properties *)

\* However two editors interleave, a presentation has one draft at most, the
\* newest of its versions, and its current version is the newest published.
VersionsSound ==
    \A p \in Presentations :
        LET stored == {n \in Numbers : Stored(p, n)}
            current == presentations[p].current
        IN /\ stored = 1 .. Cardinality(stored)
           /\ \A n \in stored : versions[p][n].published <=> n <= current
           /\ Cardinality(stored) <= current + 1

\* A link once given out shows the same page for good, although drafts, titles
\* and clients go on changing and newer versions are published.
LinksStay == [][\A p \in Presentations, n \in Numbers :
                    Public(p, n) => Public(p, n)' /\ Page(p, n)' = Page(p, n)]_presentationsVars

\* The PDF stored for a version is of that version, whatever was saved and
\* published while it was rendered, so it never has to be rendered again.
PdfMatchesLink ==
    \A p \in Presentations, n \in Numbers :
        cache[p][n] # Nothing => Public(p, n) /\ cache[p][n] = versions[p][n].content

\* What a request publishes is what it has saved, unless another save of the
\* same draft came in between.
PublishesItsOwn ==
    [][\A r \in Requests, p \in Presentations, n \in Numbers :
          /\ ~versions[p][n].published /\ versions'[p][n].published
          /\ AtStep(r, "publish") /\ requests'[r] = NoRequest /\ requests[r].presentation = p
          => requests[r].version = n /\
             (requests[r].overtaken \/ versions[p][n].content = requests[r].content)]_presentationsVars

\* Nobody's clients are overwritten by a colleague who may not see them: a
\* presentation's client is of the presentation's owner, and was last written by
\* that owner or by somebody who reads all.
ClientsAreTheOwners ==
    /\ \A p \in Presentations : presentations[p].client # Nothing =>
            clients[presentations[p].client].owner = presentations[p].owner
    /\ \A c \in Clients : clients[c].writer \in {clients[c].owner} \cup ReadAll

\* Versions and clients of all presentations, whoever works on them at once.
PresentationsSound == PresentationsTypeOK /\ VersionsSound /\ ClientsAreTheOwners
=============================================================================
