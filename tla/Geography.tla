------------------------------ MODULE Geography ------------------------------
(***************************************************************************)
(* The places GeographicService serves for one province: a list cached in  *)
(* the process for days, filled by five requests to CGNDB of which any may *)
(* fail, and data of its own when all of them do.                          *)
(*                                                                         *)
(* The cache is keyed by the province code as the client spelled it, so    *)
(* the model has one key: another is another cache. The places of one type *)
(* stand or fall together and are the type here. A fetch takes at most     *)
(* five timeouts of 15 seconds and a tick is a day, so no tick falls into  *)
(* a fetch. The search, which is not cached, is left out.                  *)
(***************************************************************************)
EXTENDS Integers

CONSTANTS
    PlaceHandlers,  \* requests in flight at once
    PlaceTypes,     \* the types fetched, of CITY, TOWN, VILL, HAM and UNP
    PlacesTtl       \* how many ticks a list stays in the cache

ASSUME GeographyAssumption == PlacesTtl \in Nat \ {0}

VARIABLES
    province,       \* the province this is about
    placeCache,     \* the types of places in the list that is cached, {} if none is
    placesLeft,     \* its TTL
    placeHandler,
    \* What happened, for the properties:
    answer,         \* the answer the last step gave, if any: the list asked for and its types
    missing         \* for how long each type counts as not delivered by CGNDB

placeVars == <<province, placeCache, placesLeft, placeHandler, answer, missing>>

\* What each endpoint keeps of all places; towns and villages overlap.
Lists == {"places", "cities", "towns", "villages"}
Kept(list) ==
    PlaceTypes \cap
      CASE list = "places" -> PlaceTypes
        [] list = "cities" -> {"CITY"}
        [] list = "towns" -> {"TOWN", "VILL"}
        [] list = "villages" -> {"VILL", "HAM"}

\* The data of the service has cities of seven provinces, one town in Ontario
\* and nothing of the others.
StaticTypes ==
    PlaceTypes \cap
      CASE province = "ON" -> {"CITY", "TOWN"}
        [] province = "QC" -> {"CITY"}
        [] province = "NB" -> {}

NoAnswer == [list |-> "none", types |-> {}]
IdlePlaces == [pc |-> "idle", list |-> "none", todo |-> {}, found |-> {}]

PlaceInit ==
    /\ province \in {"ON", "QC", "NB"}
    /\ answer = NoAnswer
    /\ placeCache = {} /\ placesLeft = 0
    /\ placeHandler = [h \in PlaceHandlers |-> IdlePlaces]
    /\ missing = [type \in PlaceTypes |-> 0]

PlacesAt(h, pc) == placeHandler[h].pc = pc

-----------------------------------------------------------------------------
(* getAllPopulatedPlaces.                                                  *)

AnswerPlaces(list, types) == answer' = [list |-> list, types |-> types \cap Kept(list)]

\* A list that is cached is the answer; otherwise the types are fetched.
AnswerFromCache(list) ==
    /\ placeCache # {}
    /\ AnswerPlaces(list, placeCache)
    /\ UNCHANGED <<province, placeCache, placesLeft, placeHandler, missing>>

LookUpPlaces(h, list) ==
    /\ PlacesAt(h, "idle")
    /\ placeCache = {}
    /\ placeHandler' = [placeHandler EXCEPT ![h] =
         [IdlePlaces EXCEPT !.pc = "fetch", !.list = list, !.todo = PlaceTypes]]
    /\ answer' = NoAnswer
    /\ UNCHANGED <<province, placeCache, placesLeft, missing>>

\* fetchFromCGNDBCorrect, one type after the other, here in any order.
FetchType(h, type) ==
    /\ PlacesAt(h, "fetch")
    /\ type \in placeHandler[h].todo
    /\ placeHandler' = [placeHandler EXCEPT ![h].todo = @ \ {type},
                                            ![h].found = @ \cup {type}]
    /\ answer' = NoAnswer
    /\ UNCHANGED <<province, placeCache, placesLeft, missing>>

\* A timeout, an error, an answer that is no list or an empty one: the others
\* are fetched all the same.
\* Mutant: the first failure ends the fetch.
MissTypeMutantGiveUp(h, type) ==
    /\ PlacesAt(h, "fetch")
    /\ type \in placeHandler[h].todo
    /\ placeHandler' = [placeHandler EXCEPT ![h].todo = {}]
    /\ missing' = [missing EXCEPT ![type] = PlacesTtl]
    /\ answer' = NoAnswer
    /\ UNCHANGED <<province, placeCache, placesLeft>>
MissType(h, type) ==
    /\ PlacesAt(h, "fetch")
    /\ type \in placeHandler[h].todo
    /\ placeHandler' = [placeHandler EXCEPT ![h].todo = @ \ {type}]
    /\ missing' = [missing EXCEPT ![type] = PlacesTtl]
    /\ answer' = NoAnswer
    /\ UNCHANGED <<province, placeCache, placesLeft>>

\* What was found is cached, over what another request may have cached since;
\* with nothing found the answer is the data of the service, which is not.
CachePlaces(h) ==
    /\ PlacesAt(h, "fetch")
    /\ placeHandler[h].todo = {}
    /\ placeHandler' = [placeHandler EXCEPT ![h] = IdlePlaces]
    /\ LET d == placeHandler[h] IN
       IF d.found = {}
         THEN AnswerPlaces(d.list, StaticTypes) /\ UNCHANGED <<placeCache, placesLeft>>
         ELSE /\ AnswerPlaces(d.list, d.found)
              /\ placeCache' = d.found /\ placesLeft' = PlacesTtl
    /\ UNCHANGED <<province, missing>>

-----------------------------------------------------------------------------
PlaceTick ==
    /\ \A h \in PlaceHandlers : PlacesAt(h, "idle")
    /\ placesLeft' = IF placesLeft > 0 THEN placesLeft - 1 ELSE 0
    /\ placeCache' = IF placesLeft = 1 THEN {} ELSE placeCache
    /\ missing' = [type \in PlaceTypes |->
                     IF missing[type] > 0 THEN missing[type] - 1 ELSE 0]
    /\ answer' = NoAnswer
    /\ UNCHANGED <<province, placeHandler>>

\* The cache lives in the process.
RestartPlaces ==
    /\ placeCache' = {} /\ placesLeft' = 0
    /\ placeHandler' = [h \in PlaceHandlers |-> IdlePlaces]
    /\ answer' = NoAnswer
    /\ UNCHANGED <<province, missing>>

PlaceNext ==
    \/ \E h \in PlaceHandlers :
         \/ \E list \in Lists : LookUpPlaces(h, list)
         \/ \E type \in PlaceTypes : FetchType(h, type) \/ MissType(h, type)
         \/ CachePlaces(h)
    \/ \E list \in Lists : AnswerFromCache(list)
    \/ PlaceTick
    \/ RestartPlaces

PlaceSpec == PlaceInit /\ [][PlaceNext]_placeVars

-----------------------------------------------------------------------------
(* Properties.                                                             *)

PlaceRequest == [pc : {"idle", "fetch"}, list : Lists \cup {"none"},
                 todo : SUBSET PlaceTypes, found : SUBSET PlaceTypes]

PlaceTypeOK ==
    /\ placeCache \subseteq PlaceTypes
    /\ placesLeft \in 0..PlacesTtl
    /\ placeHandler \in [PlaceHandlers -> PlaceRequest]
    /\ missing \in [PlaceTypes -> 0..PlacesTtl]
    /\ province \in {"ON", "QC", "NB"}
    /\ answer \in [list : Lists \cup {"none"}, types : SUBSET PlaceTypes]

\* A list lacks a type of places it should have only while CGNDB did not
\* deliver that very type within the last PlacesTtl: not for longer, not
\* because another type failed, and not because a fuller list in the cache was
\* replaced by one with less for any other reason. That holds for what is
\* cached, which always expires, and for every answer given, be it from the
\* cache, fetched, or from the data of the service.
GapsHaveCause ==
    /\ placeCache # {} =>
         /\ placesLeft > 0
         /\ \A type \in PlaceTypes \ placeCache : missing[type] >= placesLeft
    /\ answer # NoAnswer =>
         \A type \in Kept(answer.list) \ answer.types : missing[type] > 0
=============================================================================
