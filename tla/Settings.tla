------------------------------ MODULE Settings ------------------------------
(***************************************************************************)
(* The settings service of the standalone sidecar (httpServer.ts,          *)
(* settingsFile.ts, credentials.ts over localVault.ts).  A PUT reads the   *)
(* settings, merges the patch into them, moves fresh API keys into the     *)
(* encrypted store and writes the settings back; every read and write of a *)
(* file is an await, so PUTs interleave.  Node's writeFile truncates the   *)
(* file before it fills it.                                                *)
(***************************************************************************)
EXTENDS Naturals, FiniteSets

CONSTANTS Puts, Providers

VARIABLES
  store,   \* the files: settings, master key and encrypted keys
  puts     \* the PUT requests in progress

settingsVars == <<store, puts>>

\* An API key in settings.json: none, a $secret: reference, or the key itself.
ApiKeys == {"none", "ref", "plain"}
MasterKeys == Puts \cup {"none", "first"}   \* by the request that generated it
Patches == [Providers -> {"redacted", "fresh"}]

SettingsStores ==
  [file : [Providers -> ApiKeys], torn : SUBSET {"file", "key", "blob"},
   key : MasterKeys, blob : [Providers -> MasterKeys], overlap : BOOLEAN]
PutStates ==
  [at : {"idle", "reads", "finds key", "fills key", "encrypts", "opens blob", "fills blob",
         "saves", "fills file"},
   patch : Patches, merged : [Providers -> ApiKeys], key : MasterKeys, copy : [Providers -> MasterKeys]]

SettingsTypeOK == store \in SettingsStores /\ puts \in [Puts -> PutStates]

Each(x) == [p \in Providers |-> x]

\* Nothing is stored, or a provider's key is.
SettingsInit ==
  /\ \E stored \in SUBSET Providers :
       LET none == stored = {} IN
       store = [file |-> [p \in Providers |-> IF p \in stored THEN "ref" ELSE "none"],
                torn |-> {}, key |-> IF none THEN "none" ELSE "first",
                blob |-> [p \in Providers |-> IF p \in stored THEN "first" ELSE "none"],
                overlap |-> FALSE]
  /\ puts = [c \in Puts |-> [at |-> "idle", patch |-> Each("redacted"), merged |-> Each("none"),
                             key |-> "none", copy |-> Each("none")]]

Goto(c, at) == puts' = [puts EXCEPT ![c].at = at]
Finished(c) == [puts EXCEPT ![c] = [at |-> "idle", patch |-> Each("redacted"),
                  merged |-> Each("none"), key |-> "none", copy |-> Each("none")]]

\* The body of PUT /v1/settings has been read.
PutSettings(c, patch) ==
  /\ puts[c].at = "idle"
  /\ puts' = [puts EXCEPT ![c].at = "reads", ![c].patch = patch]
  /\ store' = [store EXCEPT !.overlap = @ \/ \E d \in Puts : puts[d].at # "idle"]

\* readSettings: a file that is missing, torn or not JSON reads as no settings.
Current == IF "file" \in store.torn THEN Each("none") ELSE store.file

\* mergeSettings: a redacted or empty key keeps the one that was read.
Merge(current, patch) ==
  [p \in Providers |-> IF patch[p] = "fresh" THEN "plain" ELSE current[p]]

ReadSettings(c) ==
  /\ puts[c].at = "reads"
  /\ puts' = [puts EXCEPT ![c].at = "finds key", ![c].merged = Merge(Current, puts[c].patch)]
  /\ UNCHANGED store

\* ensureMasterKey: a torn key file has the wrong length, and the PUT is
\* refused; a missing one is generated and written.
EnsureMasterKey(c) ==
  /\ puts[c].at = "finds key"
  /\ IF "key" \in store.torn THEN puts' = Finished(c) /\ UNCHANGED store
     ELSE IF store.key = "none"
       THEN /\ store' = [store EXCEPT !.torn = @ \cup {"key"}]
            /\ puts' = [puts EXCEPT ![c].at = "fills key", ![c].key = c]
       ELSE /\ puts' = [puts EXCEPT ![c].at = "encrypts", ![c].key = store.key]
            /\ UNCHANGED store

FillKey(c) ==
  /\ puts[c].at = "fills key"
  /\ store' = [store EXCEPT !.key = c, !.torn = @ \ {"key"}]
  /\ Goto(c, "encrypts")

Fresh(c) == {p \in Providers : puts[c].merged[p] = "plain"}

\* Mutant: the settings are saved while fresh keys are still to be stored.
EncryptFreshKeyUnawaited(c) ==
  /\ puts[c].at = "encrypts"
  /\ puts' = [puts EXCEPT ![c].at = "saves",
                ![c].merged = [p \in Providers |-> IF @[p] = "plain" THEN "ref" ELSE @[p]]]
  /\ UNCHANGED store

\* encryptFreshProviderKeys, one provider: loadBlob, which refuses a torn
\* file; without a fresh key left, the settings are next.
EncryptFreshKey(c) ==
  /\ puts[c].at = "encrypts"
  /\ UNCHANGED store
  /\ \/ Fresh(c) = {} /\ Goto(c, "saves")
     \/ Fresh(c) # {} /\ "blob" \in store.torn /\ puts' = Finished(c)
     \/ \E p \in Fresh(c) :
          /\ "blob" \notin store.torn
          /\ puts' = [puts EXCEPT ![c].at = "opens blob", ![c].merged[p] = "ref",
                                  ![c].copy = [store.blob EXCEPT ![p] = puts[c].key]]

\* storeBlob, and writeSettings below: truncated first, then filled.
StoreBlob(c) ==
  \/ /\ puts[c].at = "opens blob"
     /\ store' = [store EXCEPT !.torn = @ \cup {"blob"}]
     /\ Goto(c, "fills blob")
  \/ /\ puts[c].at = "fills blob"
     /\ store' = [store EXCEPT !.torn = @ \ {"blob"}, !.blob = puts[c].copy]
     /\ Goto(c, "encrypts")

WriteSettings(c) ==
  \/ /\ puts[c].at = "saves"
     /\ store' = [store EXCEPT !.torn = @ \cup {"file"}]
     /\ Goto(c, "fills file")
  \/ /\ puts[c].at = "fills file"
     /\ store' = [store EXCEPT !.torn = @ \ {"file"}, !.file = puts[c].merged]
     /\ puts' = Finished(c)

\* A read or a write fails and the request is answered with 400.
PutFails(c) == puts[c].at # "idle" /\ puts' = Finished(c) /\ UNCHANGED store

SettingsNext ==
  \E c \in Puts :
    \/ \E patch \in Patches : PutSettings(c, patch)
    \/ ReadSettings(c) \/ EnsureMasterKey(c) \/ FillKey(c) \/ EncryptFreshKey(c)
    \/ StoreBlob(c) \/ WriteSettings(c) \/ PutFails(c)

SettingsSpec == SettingsInit /\ [][SettingsNext]_settingsVars

-----------------------------------------------------------------------------
(* As long as no two PUTs overlap and no file was left truncated, a        *)
(* reference in the settings stands for a stored key that the present      *)
(* master key decrypts, also after requests that failed between two writes *)
(* (httpServer.ts:116-131, 188-196): keys are stored before the settings   *)
(* that refer to them.                                                     *)
RefsResolve ==
  ~store.overlap /\ store.torn = {} =>
    \A p \in Providers : store.file[p] # "none" =>
      store.file[p] = "ref" /\ store.blob[p] # "none" /\ store.blob[p] = store.key

\* Why it holds: as long as no two PUTs overlap, the keys in the store only grow
\* in number, all under the one master key, and a PUT has stored what the
\* settings it is about to write refer to.
Stored(blob, p) == blob[p] # "none" /\ blob[p] = store.key
StoredByNow(c) ==
  [p \in Providers |-> IF puts[c].at \in {"opens blob", "fills blob"} THEN puts[c].copy[p]
                       ELSE store.blob[p]]
KeysBeforeRefs ==
  /\ \A p \in Providers : store.file[p] # "plain"
  /\ \A c \in Puts : puts[c].at \in {"saves", "fills file"} => Fresh(c) = {}
  /\ ~store.overlap =>
       /\ \A c, d \in Puts : puts[c].at # "idle" /\ puts[d].at # "idle" => c = d
       /\ \A p \in Providers : store.blob[p] # "none" => store.blob[p] = store.key
       /\ \A p \in Providers : store.file[p] = "ref" => Stored(store.blob, p)
       /\ \A c \in Puts :
            /\ puts[c].at \in {"encrypts", "opens blob", "fills blob"} =>
                 puts[c].key = store.key /\ store.key # "none"
            /\ puts[c].at = "fills key" => store.key = "none" /\ puts[c].key = c
            /\ puts[c].at \notin {"idle", "reads"} =>
                 \A p \in Providers :
                   /\ puts[c].merged[p] = "ref" => Stored(StoredByNow(c), p)
                   /\ Stored(store.blob, p) => Stored(StoredByNow(c), p)
                   /\ StoredByNow(c)[p] # "none" => StoredByNow(c)[p] = store.key
=============================================================================
