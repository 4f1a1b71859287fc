------------------------------ MODULE AppConfig ------------------------------
(***************************************************************************)
(* The single row of app_config (migrate/files/0002_app_config.up.sql):    *)
(* internal/store/store.go, and the admin's PATCH /config, which reads the *)
(* row in one statement and writes it in another.  What Configure imports  *)
(* into the row is decided here and done in module Plugin.                 *)
(*                                                                         *)
(* A configuration is [url, key, cover]; "" is an unset field.  The fields *)
(* external_source_priority and default_cover_size are handled alike, so   *)
(* cover stands for both.  normalize gives an unset cover its default.     *)
(***************************************************************************)
EXTENDS Naturals

CONSTANTS
    Admins,      \* sessions that may PATCH at the same time
    Urls,        \* base URLs; those in ValidUrls pass ValidateBaseURL
    ValidUrls,
    Keys,        \* API keys
    Covers,      \* cover sizes, "large" among them
    Bodies,      \* the configurations an admin may send
    MaxEdits     \* how many PATCH requests are made

DefaultCover == "large"
Config       == [url : Urls \cup {""}, key : Keys \cup {""}, cover : Covers \cup {""}]
StoredConfig == [url : Urls \cup {""}, key : Keys \cup {""}, cover : Covers]

ASSUME UrlAssumption   == ValidUrls \subseteq Urls
ASSUME CoverAssumption == DefaultCover \in Covers
ASSUME BlankAssumption == "" \notin Urls \cup Keys \cup Covers
ASSUME EditAssumption  == MaxEdits \in Nat
ASSUME BodyAssumption  == Bodies \subseteq Config

VARIABLES
    data,     \* the row
    admin,    \* admin[a]: the PATCH in progress, its store and what it has read
    edits     \* PATCH requests begun

configVars == <<data, admin, edits>>

DefaultAppConfig == [url |-> "", key |-> "", cover |-> DefaultCover]

\* Mutant of Normalize: an unset cover is stored unset.
NormalizeNothing(c) == c

Normalize(c)          == IF c.cover = "" THEN [c EXCEPT !.cover = DefaultCover] ELSE c
IsValid(c)            == c.url = "" \/ c.url \in ValidUrls
ProviderConfigured(c) == c.url # "" /\ c.key # ""

\* Migration 0002 inserts '{}', which GetAppConfig reads as the defaults.
ConfigInit(noStore) ==
    /\ data = DefaultAppConfig
    /\ admin = [a \in Admins |-> [pc |-> "idle", store |-> noStore,
                                  cur |-> DefaultAppConfig, body |-> DefaultAppConfig]]
    /\ edits = 0

\* GetAppConfig; UpdateAppConfig for a configuration that IsValid
GetAppConfig       == Normalize(data)
UpdateAppConfig(c) == data' = Normalize(c)

-----------------------------------------------------------------------------
\* handleUpdateConfig reads the row before it decodes the body.
PatchRead(a, store) ==
    /\ admin[a].pc = "idle"
    /\ edits < MaxEdits /\ edits' = edits + 1
    /\ \E body \in Bodies :
          admin' = [admin EXCEPT ![a] = [pc |-> "write", store |-> store,
                                         cur |-> GetAppConfig, body |-> body]]
    /\ UNCHANGED data

\* Mutant of PatchedConfig: a blank key is taken as sent.
PatchedAsSent(a) == admin[a].body

\* A blank key in the body is replaced by the one that was read.
PatchedConfig(a) ==
    LET p == admin[a] IN
    IF p.body.key = "" THEN [p.body EXCEPT !.key = p.cur.key] ELSE p.body

\* Mutant of Accepted: the URL is not validated again.
AcceptedUnchecked(a) == TRUE

\* UpdateAppConfig validates the URL that is going to be stored.
Accepted(a) == IsValid(PatchedConfig(a))

PatchWrite(a, reachable) ==
    /\ admin[a].pc = "write"
    /\ IF reachable /\ Accepted(a)
       THEN UpdateAppConfig(PatchedConfig(a))
       ELSE UNCHANGED data                                  \* 400
    /\ admin' = [admin EXCEPT ![a].pc = "idle"]
    /\ UNCHANGED edits

-----------------------------------------------------------------------------
\* ImportLegacyAppConfig writes the host's configuration only over defaults,
\* and only if it is anything else.
ImportNeeded(host) ==
    /\ GetAppConfig = DefaultAppConfig
    /\ Normalize(host) # DefaultAppConfig
=============================================================================
