------------------------------- MODULE Profile -------------------------------
(***************************************************************************)
(* What users change of their own rows outside sign-in: the picture and    *)
(* the files behind it (CountryService.uploadProfilePicture and            *)
(* FileStoreService), the names (updateProfile), the postal address        *)
(* (completeAddressEdit), the e-mail address (emailChangeComplete), the    *)
(* FCM token and the Face ID key.                                          *)
(*                                                                         *)
(* repository.save writes the whole entity as it was read some awaits      *)
(* before, with the request's own change; repository.update writes its own *)
(* columns only. The index on emailHash is unique.                         *)
(***************************************************************************)
EXTENDS Integers, FiniteSets

CONSTANTS
    ProfileHandlers,  \* requests in flight at once
    Owners,           \* the users; each stands for the address it signed up with
    FreeAddresses,    \* addresses nobody signed up with
    NameChoices,      \* the names a request may give
    PartChoices,      \* the parts of the address a request may give
    MaxEdits,         \* bound: requests
    MaxProfileFaults  \* bound: failed calls and process restarts

Names == {"firstName", "lastName"}
Parts == {"street", "city"}

ASSUME ProfileAssumption ==
    /\ Owners # {}
    /\ NameChoices \subseteq SUBSET Names /\ PartChoices \subseteq SUBSET Parts
    /\ MaxEdits \in Nat /\ MaxProfileFaults \in Nat

\* A column holds the number of the request that wrote it last, 0 is empty. The
\* two columns of the e-mail address hold an address and what is its hash.
Addresses == Owners \cup FreeAddresses
Numbered == {"picture", "token", "key"} \cup Names \cup Parts
Columns == Numbered \cup {"email", "hash"}

VARIABLES
    profiles,         \* users: the columns of each row
    objects,          \* Wasabi: the files stored
    fileRows,         \* file_store: the files there are rows of
    profileHandler,
    edits,            \* requests so far
    profileFaults,
    \* What happened, for the properties:
    asked,            \* what each column was last changed to by a request meant for it
    reverted          \* <<user, column>> that a save wrote back from an older copy and
                      \* no request meant for it has written since

profileVars == <<profiles, objects, fileRows, profileHandler, edits, profileFaults,
                 asked, reverted>>

FirstRow(u) == [c \in Columns |-> IF c \in Numbered THEN 0 ELSE u]
SomeOwner == CHOOSE u \in Owners : TRUE
IdleProfile == [pc |-> "idle", op |-> "none", owner |-> SomeOwner, value |-> 0,
                parts |-> {}, address |-> SomeOwner, copy |-> FirstRow(SomeOwner)]

ProfileInit ==
    /\ profiles = [u \in Owners |-> FirstRow(u)]
    /\ objects = {} /\ fileRows = {}
    /\ profileHandler = [h \in ProfileHandlers |-> IdleProfile]
    /\ edits = 0 /\ profileFaults = 0
    /\ asked = [u \in Owners |-> FirstRow(u)]
    /\ reverted = {}

ProfileAt(h, pc) == profileHandler[h].pc = pc
ProfileGoes(h, pc) == profileHandler' = [profileHandler EXCEPT ![h].pc = pc]
ProfileAnswers(h) == profileHandler' = [profileHandler EXCEPT ![h] = IdleProfile]

-----------------------------------------------------------------------------
(* Requests.                                                               *)

FirstCall(op) ==
    CASE op = "email" -> "check"
      [] op = "file" -> "put"
      [] op \in {"picture", "profile", "token"} -> "find"
      [] op \in {"edit", "key"} -> "update"

ReceiveEdit(h, u, op, parts, address) ==
    /\ ProfileAt(h, "idle")
    /\ edits < MaxEdits
    /\ edits' = edits + 1
    /\ profileHandler' = [profileHandler EXCEPT ![h] =
         [IdleProfile EXCEPT !.pc = FirstCall(op), !.op = op, !.owner = u,
                             !.value = edits + 1, !.parts = parts, !.address = address]]
    /\ UNCHANGED <<profiles, objects, fileRows, profileFaults, asked, reverted>>

\* A client gives one picture, one token, some names, some parts of an address
\* or an e-mail address. updateProfile has code for an address too, but the field
\* has no decorator and the ValidationPipe refuses a request that gives it.
AnyEdit(h) ==
    \E u \in Owners :
      \/ \E op \in {"picture", "file", "token", "key"} : ReceiveEdit(h, u, op, {}, u)
      \/ \E names \in NameChoices : ReceiveEdit(h, u, "profile", names, u)
      \/ \E parts \in PartChoices : ReceiveEdit(h, u, "edit", parts, u)
      \/ \E address \in Addresses : ReceiveEdit(h, u, "email", {}, address)

\* emailChangeComplete refuses an address another row has.
CheckAddress(h) ==
    /\ ProfileAt(h, "check")
    /\ LET d == profileHandler[h] IN
       IF \E v \in Owners \ {d.owner} : profiles[v].hash = d.address
         THEN ProfileAnswers(h) ELSE ProfileGoes(h, "find")
    /\ UNCHANGED <<profiles, objects, fileRows, edits, profileFaults, asked, reverted>>

FindOwner(h) ==
    /\ ProfileAt(h, "find")
    /\ profileHandler' = [profileHandler EXCEPT
         ![h].pc = IF profileHandler[h].op = "picture" THEN "put" ELSE "save",
         ![h].copy = profiles[profileHandler[h].owner]]
    /\ UNCHANGED <<profiles, objects, fileRows, edits, profileFaults, asked, reverted>>

-----------------------------------------------------------------------------
(* FileStoreService.uploadFile, for a picture and for a file of its own.   *)

\* The object first; when Wasabi refuses it the request fails.
\* Mutant: the failure is only logged.
PutObjectMutantLogged(h) ==
    /\ ProfileAt(h, "put")
    /\ \/ objects' = objects \cup {profileHandler[h].value} /\ UNCHANGED profileFaults
       \/ /\ profileFaults < MaxProfileFaults /\ profileFaults' = profileFaults + 1
          /\ UNCHANGED objects
    /\ ProfileGoes(h, "record")
    /\ UNCHANGED <<profiles, fileRows, edits, asked, reverted>>
PutObject(h) ==
    /\ ProfileAt(h, "put")
    /\ \/ /\ objects' = objects \cup {profileHandler[h].value}
          /\ ProfileGoes(h, "record")
          /\ UNCHANGED profileFaults
       \/ /\ profileFaults < MaxProfileFaults /\ profileFaults' = profileFaults + 1
          /\ ProfileAnswers(h)
          /\ UNCHANGED objects
    /\ UNCHANGED <<profiles, fileRows, edits, asked, reverted>>

\* Its row second. When that fails the object stays: nothing deletes it.
RecordFile(h) ==
    /\ ProfileAt(h, "record")
    /\ fileRows' = fileRows \cup {profileHandler[h].value}
    /\ IF profileHandler[h].op = "picture" THEN ProfileGoes(h, "save") ELSE ProfileAnswers(h)
    /\ UNCHANGED <<profiles, objects, edits, profileFaults, asked, reverted>>

\* retrieveFile looks for the row and asks Wasabi for the object it names.
Retrievable(file) == file \in fileRows /\ file \in objects

-----------------------------------------------------------------------------
(* The columns a request writes.                                           *)

\* emailChangeComplete: the address and its hash.
\* Mutant: the hash is forgotten.
EmailEditMutantNoHash(d) == [d.copy EXCEPT !.email = d.address]
EmailEdit(d) == [d.copy EXCEPT !.email = d.address, !.hash = d.address]

\* updateProfile: the names given, the others as they were read.
\* Mutant: a name that is not given is saved empty.
ProfileEditMutantEmpty(d) ==
    [c \in Columns |-> IF c \in d.parts THEN d.value
                       ELSE IF c \in Names THEN 0 ELSE d.copy[c]]
ProfileEdit(d) == [c \in Columns |-> IF c \in d.parts THEN d.value ELSE d.copy[c]]

Edited(d) ==
    CASE d.op = "picture" -> [d.copy EXCEPT !.picture = d.value]
      [] d.op = "token" -> [d.copy EXCEPT !.token = d.value]
      [] d.op = "email" -> EmailEdit(d)
      [] d.op = "profile" -> ProfileEdit(d)

\* completeAddressEdit replaces the address by the parts that are not empty.
AddressEdit(d) ==
    [c \in Columns |-> IF c \notin Parts THEN profiles[d.owner][c]
                       ELSE IF c \in d.parts THEN d.value ELSE 0]

\* The columns a request is meant to write.
Meant(d) ==
    CASE d.op = "picture" -> {"picture"}
      [] d.op = "token" -> {"token"}
      [] d.op = "key" -> {"key"}
      [] d.op = "email" -> {"email", "hash"}
      [] d.op = "profile" -> d.parts
      [] d.op = "edit" -> Parts

\* A row is written over the one that is there; base is the row it was made from.
WriteRow(d, base, row) ==
    LET u == d.owner IN
    /\ profiles' = [profiles EXCEPT ![u] = row]
    /\ asked' = [asked EXCEPT ![u] =
                    [c \in Columns |-> IF c \in Meant(d) THEN row[c] ELSE @[c]]]
    /\ reverted' = (reverted \ ({u} \X Meant(d))) \cup
         ({u} \X {c \in Columns \ Meant(d) : base[c] # profiles[u][c]})

\* The unique index refuses a hash another row has, be it the one asked for or
\* the one of the copy.
SaveOwner(h) ==
    /\ ProfileAt(h, "save")
    /\ LET d == profileHandler[h]  row == Edited(d) IN
       IF \E v \in Owners \ {d.owner} : profiles[v].hash = row.hash
         THEN UNCHANGED <<profiles, asked, reverted>>
         ELSE WriteRow(d, d.copy, row)
    /\ ProfileAnswers(h)
    /\ UNCHANGED <<objects, fileRows, edits, profileFaults>>

UpdateColumns(h) ==
    /\ ProfileAt(h, "update")
    /\ LET d == profileHandler[h]  now == profiles[d.owner] IN
       WriteRow(d, now, IF d.op = "key" THEN [now EXCEPT !.key = d.value] ELSE AddressEdit(d))
    /\ ProfileAnswers(h)
    /\ UNCHANGED <<objects, fileRows, edits, profileFaults>>

-----------------------------------------------------------------------------
\* The call awaited fails or the process restarts.
FailProfile(h) ==
    /\ ~ProfileAt(h, "idle")
    /\ profileFaults < MaxProfileFaults
    /\ profileFaults' = profileFaults + 1
    /\ ProfileAnswers(h)
    /\ UNCHANGED <<profiles, objects, fileRows, edits, asked, reverted>>

ProfileNext ==
    \E h \in ProfileHandlers :
      \/ AnyEdit(h)
      \/ CheckAddress(h) \/ FindOwner(h)
      \/ PutObject(h) \/ RecordFile(h)
      \/ SaveOwner(h) \/ UpdateColumns(h)
      \/ FailProfile(h)

ProfileSpec == ProfileInit /\ [][ProfileNext]_profileVars

-----------------------------------------------------------------------------
(* Properties.                                                             *)

ProfileRow ==
    {row \in [Columns -> (0..MaxEdits) \cup Addresses] :
       /\ \A c \in Numbered : row[c] \in 0..MaxEdits
       /\ row.email \in Addresses /\ row.hash \in Addresses}
ProfileRequest ==
    [pc : {"idle", "check", "find", "put", "record", "save", "update"},
     op : {"none", "picture", "file", "token", "key", "profile", "edit", "email"},
     owner : Owners, value : 0..MaxEdits, parts : SUBSET (Names \cup Parts), address : Addresses,
     copy : ProfileRow]

ProfileTypeOK ==
    /\ profiles \in [Owners -> ProfileRow] /\ asked \in [Owners -> ProfileRow]
    /\ objects \subseteq 1..MaxEdits /\ fileRows \subseteq 1..MaxEdits
    /\ profileHandler \in [ProfileHandlers -> ProfileRequest]
    /\ edits \in 0..MaxEdits /\ profileFaults \in 0..MaxProfileFaults
    /\ reverted \subseteq Owners \X Columns

\* An address belongs to one user at a time and is found by its own hash: not
\* two changes to one address that both passed the check, and not a save of an
\* older row after its address went to another user, can break that.
EmailsAreOwn ==
    /\ \A u \in Owners : profiles[u].hash = profiles[u].email
    /\ \A u, v \in Owners : profiles[u].email = profiles[v].email => u = v

\* Whatever fails in between, a file with a row can be retrieved, and a picture
\* a row shows is such a file, also when an older copy of the row is saved.
FilesAreRetrievable ==
    /\ \A file \in fileRows : Retrievable(file)
    /\ \A u \in Owners : profiles[u].picture = 0 \/ Retrievable(profiles[u].picture)

\* A column holds what the last request meant for it has written, unless a
\* whole-row save read the row before that request wrote it: the requests of
\* other users, refused and failed ones, an update of the address or the key,
\* and a profile update that gives only one of the names undo nothing.
EditsStick ==
    \A u \in Owners, c \in Columns :
      profiles[u][c] = asked[u][c] \/ <<u, c>> \in reverted
=============================================================================
