--------------------------- MODULE ProfileLocation ---------------------------
(***************************************************************************)
(* The address of a profile and the coordinates geocoding gives it:        *)
(* profile-location.service.ts and the updates of profiles.service.ts that *)
(* save the profile.                                                       *)
(*                                                                         *)
(* A save of TypeORM is two statements: a SELECT, whose result the copy in *)
(* memory is compared with, and an UPDATE of the columns that differ.  The *)
(* requests interleave between them, and wait for the geocoder without a   *)
(* lock.  An address stands for its five columns, and for its own hash;    *)
(* the coordinates are named by the address they were found for.           *)
(***************************************************************************)
EXTENDS FiniteSets

CONSTANTS Addresses,
          Complete,   \* the addresses that canGeocode
          NoAddress,
          Updates     \* requests that may be in progress

ASSUME LocationConstants ==
    /\ Complete \subseteq Addresses
    /\ NoAddress \notin Addresses

VARIABLES row,    \* the profile's row
          update  \* the requests in progress

locationVars == <<row, update>>

Columns == {"address", "hash", "coordinates", "status"}
GeocodingStatus == {"PENDING", "VALID", "INVALID"}
Place == Addresses \cup {NoAddress}

\* mixed, history: the row was put together by saves that overlapped.
Row == [address : Place, hash : Place, coordinates : Place,
        status : GeocodingStatus, mixed : BOOLEAN]

\* A profile without an address, or with one from before addresses had hashes.
OldRow(a) == [address |-> a, hash |-> NoAddress, coordinates |-> NoAddress,
              status |-> "PENDING", mixed |-> FALSE]

\* copy: the profile in memory; differ: the columns the SELECT of a save found to
\* differ; overtaken, history: another save has written since; then: what follows
\* the save; address: the one the geocoder was asked for.
Idle == [step |-> "idle", copy |-> OldRow(NoAddress), differ |-> {}, overtaken |-> FALSE,
         then |-> "idle", address |-> NoAddress]

LocationTypeOK ==
    /\ row \in Row
    /\ update \in [Updates -> [step : {"idle", "save", "write", "sync", "geocode", "invalidate"},
                              copy : Row, differ : SUBSET Columns, overtaken : BOOLEAN,
                              then : {"idle", "sync"}, address : Place]]

LocationInit ==
    /\ row \in {OldRow(a) : a \in Place}
    /\ update = [u \in Updates |-> Idle]

-----------------------------------------------------------------------------
At(u, step) == update[u].step = step
Goto(u, step) == update' = [update EXCEPT ![u] = [Idle EXCEPT !.step = step]]
Saving(copy, then) == [Idle EXCEPT !.step = "save", !.copy = copy, !.then = then]

\* Mutant: an address that cannot be geocoded gets no status.
PreparedUnjudged(a) ==
    [address |-> a, hash |-> a, coordinates |-> NoAddress,
     status |-> IF a \in Complete THEN "PENDING" ELSE NoAddress, mixed |-> FALSE]

\* prepareAddressForGeocoding
Prepared(a) ==
    [address |-> a, hash |-> a, coordinates |-> NoAddress,
     status |-> IF a \in Complete THEN "PENDING" ELSE "INVALID", mixed |-> FALSE]

\* ensureAddressHashForGeocoding, of a profile without coordinates
WithHash(copy) == IF copy.hash = copy.address THEN copy
                  ELSE [copy EXCEPT !.hash = copy.address, !.status = "PENDING"]

LacksCoordinates == row.coordinates = NoAddress /\ row.address \in Complete

\* updateProfile, of the address a; any other field when a is the row's
UpdateProfile(u, a) ==
    /\ At(u, "idle")
    /\ update' = [update EXCEPT ![u] =
         CASE a # row.address  -> Saving(Prepared(a), "sync")
           [] a = row.address /\ LacksCoordinates -> Saving(WithHash(row), "sync")
           [] OTHER -> Saving(row, "idle")]
    /\ UNCHANGED row

\* updatePhotoUrl saves the whole profile too.
UpdatePhoto(u) ==
    /\ At(u, "idle")
    /\ update' = [update EXCEPT ![u] = Saving(row, "idle")]
    /\ UNCHANGED row

\* save: the SELECT
Compare(u) ==
    LET differ == {c \in Columns : update[u].copy[c] # row[c]}
    IN  /\ At(u, "save")
        /\ IF differ = {} THEN Goto(u, update[u].then)
           ELSE update' = [update EXCEPT ![u].step = "write", ![u].differ = differ]
        /\ UNCHANGED row

\* save: the UPDATE
Write(u) ==
    LET me == update[u]
    IN  /\ At(u, "write")
        /\ row' = [f \in DOMAIN row |->
                     CASE f = "mixed" -> me.copy.mixed \/ me.overtaken
                       [] f \in me.differ -> me.copy[f]
                       [] OTHER -> row[f]]
        /\ update' = [v \in Updates |->
                        IF v = u THEN [Idle EXCEPT !.step = me.then]
                        ELSE [update[v] EXCEPT !.overtaken = @ \/ At(v, "write")]]

\* syncProfileCoordinates, as far as the call of the geocoder
Snapshot(u) ==
    /\ At(u, "sync")
    /\ update' = [update EXCEPT ![u] =
         IF row.address \in Complete
         THEN [Idle EXCEPT !.step = "geocode", !.address = row.address]
         ELSE [Idle EXCEPT !.step = "invalidate"]]
    /\ UNCHANGED row

\* Mutant: the row is not compared with the snapshot.
GeocodedForWhom(u, found) ==
    /\ At(u, "geocode")
    /\ update' = [update EXCEPT ![u] =
         IF ~found THEN [Idle EXCEPT !.step = "invalidate"]
         ELSE Saving([row EXCEPT !.coordinates = update[u].address, !.status = "VALID"], "idle")]
    /\ UNCHANGED row

\* syncProfileCoordinates, once geocodeWithTimeout answers
Geocoded(u, found) ==
    /\ At(u, "geocode")
    /\ update' = [update EXCEPT ![u] =
         CASE row.hash # update[u].address -> Idle
           [] row.hash = update[u].address /\ ~found -> [Idle EXCEPT !.step = "invalidate"]
           [] OTHER -> Saving([row EXCEPT !.coordinates = update[u].address,
                                          !.status = "VALID"], "idle")]
    /\ UNCHANGED row

\* markAsInvalid reads the profile again, and asks for no hash.
MarkAsInvalid(u) ==
    /\ At(u, "invalidate")
    /\ update' = [update EXCEPT ![u] =
         Saving([row EXCEPT !.coordinates = NoAddress, !.status = "INVALID"], "idle")]
    /\ UNCHANGED row

\* The process dies: nothing resumes what its requests were doing.
LocationCrash ==
    /\ update' = [u \in Updates |-> Idle]
    /\ UNCHANGED row

LocationNext ==
    \/ \E u \in Updates :
          \/ \E a \in Place : UpdateProfile(u, a)
          \/ UpdatePhoto(u) \/ Compare(u) \/ Write(u) \/ Snapshot(u) \/ MarkAsInvalid(u)
          \/ \E found \in BOOLEAN : Geocoded(u, found)
    \/ LocationCrash

LocationSpec == LocationInit /\ [][LocationNext]_locationVars

-----------------------------------------------------------------------------
\* The coordinates of a profile are those of the address beside them, whatever the
\* address became while the geocoder was asked and whichever stale copies were
\* saved: only saves whose own two statements overlap can put them apart.
CoordinatesMatchAddress ==
    ~row.mixed /\ row.coordinates # NoAddress
        => row.address = row.coordinates /\ row.hash = row.address /\ row.status = "VALID"

-----------------------------------------------------------------------------
(***************************************************************************)
(* Stated, and not kept by the code: a copy read before (updatePhotoUrl),  *)
(* or the failure to geocode an earlier address, takes them away.          *)
(***************************************************************************)
\* Coordinates are kept until the address changes.
CoordinatesAreKept ==
    [][row.coordinates # NoAddress /\ row'.address = row.address
         => row'.coordinates = row.coordinates]_locationVars
=============================================================================
