---------------------------- MODULE AuthLifecycle ----------------------------
(***************************************************************************)
(* The identity life cycle of the app: context/AuthContext.tsx over        *)
(* services/SecureIdentityStorage.ts, IdentityCleanup.ts and               *)
(* LobbySessionStore.ts.                                                   *)
(*                                                                         *)
(* An operation is the sequence of its awaited steps; a task holds those   *)
(* still to do, and the steps of all tasks interleave.  Four actors run    *)
(* tasks: the bootstrap of a launch, the screens whose buttons isLoading   *)
(* disables, the seed phrase screen, and what starts by itself once an     *)
(* identity is current (the claim dialog, the clean-up of the wallet list, *)
(* the re-registration on a new chain).  Of an identity the model keeps    *)
(* its DID.  signIn has no caller and is left out.                         *)
(***************************************************************************)
EXTENDS Naturals, Sequences, Functions

CONSTANTS
    Dids,           \* identities
    Legacy,         \* a stored identity whose DID is malformed
    None,
    MaxOps,         \* bound: operations started
    MaxRelaunches,  \* bound: launches after the first
    MaxFaults       \* bound: calls that throw

ASSUME AuthAssumption ==
    /\ None \notin Dids /\ Legacy \notin Dids /\ Legacy # None
    /\ MaxOps \in Nat /\ MaxRelaunches \in Nat /\ MaxFaults \in Nat

Actors == {"boot", "screen", "seed", "auto"}

VARIABLES
    keychain, backup, id,   \* the three places of SecureIdentityStorage
    readable,               \* the Keystore still has the key of the keychain's entry
    cut,                    \* history: the app died between two calls of a save or wipe,
                            \* and no whole one came after it
    flag,                   \* MIGRATION_REQUIRED_KEY
    lobbyStore,             \* the persisted OPAQUE session, by its DID
    wallets,                \* native key stores on this device
    accounts,               \* OPAQUE credentials the server has
    current, lobby, bound,  \* currentIdentity, lobbySession, the QUIC binding
    booting, loading,       \* isBootstrapping, isLoading
    pendingSeed,            \* identity shown on the seed phrase screen
    task,                   \* what each actor is doing
    ops, relaunches, faults,
    half,                   \* history: created by a registration that runs or failed,
                            \* no credential
    torn                    \* history: a storage call threw, or two tasks changed the
                            \* identity at once

storeVars == <<keychain, backup, id, readable, cut>>
diskVars == <<flag, lobbyStore>>
serverVars == <<wallets, accounts, half>>
boundVars == <<ops, relaunches, faults>>
vars == <<storeVars, diskVars, serverVars, current, lobby, bound, booting, loading,
          pendingSeed, task, boundVars, torn>>

-----------------------------------------------------------------------------
(***************************************************************************)
(* The operations, as sequences of steps.                                  *)
(***************************************************************************)
Store == <<"keychain", "backup", "id">>                 \* setIdentity of the storage
Clear == <<"rmKeychain", "rmBackup", "rmId">>           \* clearIdentity
CleanAll == <<"native", "dropId">> \o Clear             \* cleanAllIdentities
Activate == Store \o <<"current", "fetch">>
Hydrated == Store \o <<"current">>                      \* hydrateIdentityFromChain
Login == <<"login", "saveLobby">>

Boot == <<"readFlag", "loadLobby", "readBackup">>
RestoreHandles == <<"handle", "fetch">>
RecoverIdentity == <<"recover">> \o Activate
PasswordSignIn == Login \o <<"wallet">> \o Activate
UpgradeLegacy == <<"readId", "complete">> \o PasswordSignIn
RegisterAccount == <<"begin", "create">> \o Store \o <<"bind", "complete">> \o Login \o <<"show">>
RollbackHalf == <<"unbind">>
Rollback == <<"unbind">> \o Clear \o <<"rmWallet">>
Migrated == <<"restored">> \o Store \o <<"clearFlag", "show">>
Migrating == <<"clearSeed">> \o Migrated
MigrateFromSeed == <<"migrate">> \o CleanAll \o Migrating
SignOut == Clear \o <<"noCurrent", "rmLobby">>
ForceCleanup == <<"setFlag">> \o CleanAll \o <<"noCurrent">>
ClaimUsername == <<"claim">> \o Hydrated
\* checkAndReregister; it saves the identity, and setIdentity, which it then
\* calls, saves the same one again: one save here.
Reregister == <<"reregister">> \o Activate
UpdatePassphrase == <<"current">>
LoadOnDemand == <<"readKeychain", "current", "syncBackup">>
LoadBackup == <<"fallback", "current", "syncBackup">>   \* the keychain has nothing
RestoreBackup == <<"fallback">> \o Store \o <<"current", "syncBackup">>

Loaders == {"recover", "signIn", "register", "migrate", "signOut", "update", "cleanup"}
StoreSteps == Range(Store) \cup Range(Clear) \cup {"dropId", "syncBackup"}
IdentitySteps == StoreSteps \cup {"current", "noCurrent", "bind", "unbind"}

Ops == Loaders \cup {"none", "boot", "demand", "seed", "claim", "rereg"}
Steps == IdentitySteps \cup
    {"readFlag", "loadLobby", "readBackup", "fetch", "recover", "migrate", "wallet", "readId",
     "begin", "create", "complete", "login", "claim", "saveLobby", "rmLobby", "rmWallet",
     "show", "setFlag", "clearFlag", "native", "readKeychain", "fallback", "handle",
     "clearSeed", "restored", "reregister"}
Tasks == [op : Ops, d : Dids \cup {Legacy, None}, todo : Seq(Steps)]

Idle == [op |-> "none", d |-> None, todo |-> <<>>]
Doing(u, steps) == Range(task[u].todo) \cap steps # {}
Quiescent == \A u \in Actors : task[u] = Idle

TypeOK ==
    /\ {keychain, backup, id, current, bound} \subseteq Dids \cup {Legacy, None}
    /\ {lobbyStore, lobby, pendingSeed} \subseteq Dids \cup {None}
    /\ {readable, cut, flag, booting, loading, torn} \subseteq BOOLEAN
    /\ wallets \subseteq Dids /\ accounts \subseteq Dids /\ half \subseteq Dids
    /\ task \in [Actors -> Tasks]
    /\ \A u \in Actors : task[u].todo = <<>> => task[u] = Idle
    /\ ops \in 0..MaxOps /\ relaunches \in 0..MaxRelaunches /\ faults \in 0..MaxFaults

Launched == [u \in Actors |-> IF u = "boot" THEN [op |-> "boot", d |-> None, todo |-> Boot] ELSE Idle]

Init ==
    /\ \E s \in {None, Legacy} : keychain = s /\ backup = s /\ id = s
    /\ readable = TRUE /\ cut = FALSE
    /\ flag = FALSE /\ lobbyStore = None
    /\ wallets = {} /\ accounts = {} /\ half = {}
    /\ current = None /\ lobby = None /\ bound = None
    /\ booting = TRUE /\ loading = FALSE
    /\ pendingSeed = None
    /\ task = Launched
    /\ ops = 0 /\ relaunches = 0 /\ faults = 0
    /\ torn = FALSE

-----------------------------------------------------------------------------
(***************************************************************************)
(* Taking steps.                                                           *)
(***************************************************************************)
At(u, step) == task[u].todo # <<>> /\ Head(task[u].todo) = step
Rest(u) == Tail(task[u].todo)

\* Go on with `todo`; an operation that ends runs its finally block.
GoOn(u, todo) ==
    /\ task' = [task EXCEPT ![u] = IF todo = <<>> THEN Idle ELSE [@ EXCEPT !.todo = todo]]
    /\ loading' = (loading /\ ~(todo = <<>> /\ task[u].op \in Loaders))
    /\ booting' = (booting /\ ~(todo = <<>> /\ u = "boot"))

\* A registration changes the identity to its end: it may have to roll back.
Changing(u) == Doing(u, IdentitySteps) \/ task[u].op = "register"
Overlaps(u) == torn' = (torn \/ \E v \in Actors \ {u} : Changing(v))

Begin(u, op, d, todo) ==
    /\ task[u] = Idle
    /\ ops < MaxOps /\ ops' = ops + 1
    /\ task' = [task EXCEPT ![u] = [op |-> op, d |-> d, todo |-> todo]]
    /\ loading' = (loading \/ op \in Loaders)
    /\ UNCHANGED <<storeVars, diskVars, serverVars, current, lobby, bound, booting,
                   pendingSeed, relaunches, faults, torn>>

\* A newly created identity is nobody's yet.
Fresh(d) ==
    /\ d \notin wallets \cup accounts \cup half
    /\ d \notin {keychain, backup, id, lobbyStore, lobby, bound, pendingSeed}
    /\ \A u \in Actors : task[u].d # d

\* The buttons of the sign-in, profile and settings screens.  A seed phrase is
\* known to the user only if a registration got as far as showing it.
ScreenBegins(d) ==
    /\ ~booting /\ ~loading
    /\ \/ current = None /\ d \notin half /\ Begin("screen", "recover", d, RecoverIdentity)
       \/ current = None /\ d \in accounts /\ Begin("screen", "signIn", d, PasswordSignIn)
       \/ current = None /\ d \in wallets /\ Begin("screen", "signIn", d, UpgradeLegacy)
       \/ current = None /\ flag /\ d \notin half /\ Begin("screen", "migrate", d, MigrateFromSeed)
       \/ current = None /\ Begin("screen", "demand", None, LoadOnDemand)
       \/ current # None /\ Begin("screen", "signOut", current, SignOut)
       \/ current # None /\ Begin("screen", "update", current, Hydrated)
       \/ current # None /\ Begin("screen", "update", current, UpdatePassphrase)

\* The registration screen does not look at isLoading.
RegisterBegins(d) ==
    /\ ~booting /\ current = None /\ Fresh(d)
    /\ Begin("screen", "register", d, RegisterAccount)

\* setIdentity of the seed phrase screen.
SeedConfirmed ==
    /\ pendingSeed # None /\ current = None
    /\ Begin("seed", "seed", pendingSeed, Activate)

\* The re-registration does not wait for the splash screen to go.
AutoBegins ==
    /\ current # None /\ current # Legacy
    /\ \/ ~booting /\ Begin("auto", "cleanup", current, ForceCleanup)
       \/ ~booting /\ Begin("auto", "claim", current, ClaimUsername)
       \/ Begin("auto", "rereg", current, Reregister)

-----------------------------------------------------------------------------
(***************************************************************************)
(* Steps on the identity storage.                                          *)
(***************************************************************************)
WriteStore(u) ==
    /\ \/ At(u, "keychain") /\ keychain' = task[u].d /\ readable' = TRUE /\ UNCHANGED <<backup, id, cut>>
       \/ /\ At(u, "backup") \/ At(u, "syncBackup")
          /\ backup' = task[u].d /\ UNCHANGED <<keychain, id, readable, cut>>
       \/ At(u, "id") /\ id' = task[u].d /\ cut' = FALSE /\ UNCHANGED <<keychain, backup, readable>>
    /\ Overlaps(u)
    /\ GoOn(u, Rest(u))
    /\ UNCHANGED <<diskVars, serverVars, current, lobby, bound, pendingSeed, boundVars>>

ClearStoreKeepsBackup(u) ==
    /\ \/ At(u, "rmKeychain") /\ keychain' = None /\ readable' = TRUE /\ UNCHANGED <<backup, id, cut>>
       \/ At(u, "rmBackup") /\ UNCHANGED storeVars
       \/ At(u, "rmId") /\ id' = None /\ cut' = FALSE /\ UNCHANGED <<keychain, backup, readable>>
       \/ At(u, "dropId") /\ id' = None /\ UNCHANGED <<keychain, backup, readable, cut>>
    /\ Overlaps(u)
    /\ GoOn(u, Rest(u))
    /\ UNCHANGED <<diskVars, serverVars, current, lobby, bound, pendingSeed, boundVars>>

ClearStore(u) ==
    /\ \/ At(u, "rmKeychain") /\ keychain' = None /\ readable' = TRUE /\ UNCHANGED <<backup, id, cut>>
       \/ At(u, "rmBackup") /\ backup' = None /\ UNCHANGED <<keychain, id, readable, cut>>
       \/ At(u, "rmId") /\ id' = None /\ cut' = FALSE /\ UNCHANGED <<keychain, backup, readable>>
       \/ At(u, "dropId") /\ id' = None /\ UNCHANGED <<keychain, backup, readable, cut>>
    /\ Overlaps(u)
    /\ GoOn(u, Rest(u))
    /\ UNCHANGED <<diskVars, serverVars, current, lobby, bound, pendingSeed, boundVars>>

\* What follows a clearIdentity that threw.
AfterClear(u) ==
    CASE task[u].op = "signOut" -> <<>>
      [] task[u].op = "register" -> <<"rmWallet">>
      [] task[u].op = "migrate" -> Migrating
      [] OTHER -> <<"noCurrent">>

\* What follows a failed save.
AfterStore(u) ==
    CASE task[u].op = "register" -> Rollback
      [] task[u].op = "demand" /\ Doing(u, {"current"}) -> <<"current", "syncBackup">>
      [] task[u].op \notin {"register", "demand", "update"} /\ Doing(u, {"current"})
            /\ ~Doing(u, {"fetch"}) -> <<"current">>
      [] OTHER -> <<>>

\* A storage call throws.  A rollback, a clean-up, a migration and the
\* bootstrap go on without what clearIdentity had left; a hydration, a claim
\* and an on-demand load ignore the failed save; a registration rolls back;
\* syncBackup and the others end.
StoreThrows(u) ==
    /\ \E step \in StoreSteps : At(u, step)
    /\ faults < MaxFaults /\ faults' = faults + 1
    /\ torn' = TRUE
    /\ GoOn(u, IF At(u, "dropId") THEN <<>>
               ELSE IF Doing(u, Range(Clear)) THEN AfterClear(u)
               ELSE AfterStore(u))
    /\ UNCHANGED <<storeVars, diskVars, serverVars, current, lobby, bound,
                   pendingSeed, ops, relaunches>>

\* setCurrentIdentity(d); the effect on its DID binds the QUIC session.
SetCurrentUnbound(u) ==
    /\ At(u, "current")
    /\ current' = task[u].d
    /\ pendingSeed' = IF task[u].op = "seed" THEN None ELSE pendingSeed
    /\ Overlaps(u)
    /\ GoOn(u, Rest(u))
    /\ UNCHANGED <<storeVars, diskVars, serverVars, lobby, bound, boundVars>>

SetCurrent(u) ==
    /\ At(u, "current")
    /\ current' = task[u].d
    /\ bound' = IF current # task[u].d THEN task[u].d ELSE bound
    /\ pendingSeed' = IF task[u].op = "seed" THEN None ELSE pendingSeed
    /\ Overlaps(u)
    /\ GoOn(u, Rest(u))
    /\ UNCHANGED <<storeVars, diskVars, serverVars, lobby, boundVars>>

ClearCurrent(u) ==
    /\ At(u, "noCurrent")
    /\ current' = None
    /\ bound' = IF current # None THEN None ELSE bound
    /\ Overlaps(u)
    /\ GoOn(u, Rest(u))
    /\ UNCHANGED <<storeVars, diskVars, serverVars, lobby, pendingSeed, boundVars>>

-----------------------------------------------------------------------------
(***************************************************************************)
(* The bootstrap.                                                          *)
(***************************************************************************)
\* A pending migration wipes the device instead of restoring.
ReadFlag ==
    /\ At("boot", "readFlag")
    /\ GoOn("boot", IF flag THEN CleanAll \o <<"noCurrent">> ELSE Rest("boot"))
    /\ UNCHANGED <<storeVars, diskVars, serverVars, current, lobby, bound,
                   pendingSeed, boundVars, torn>>

LoadLobby ==
    /\ At("boot", "loadLobby")
    /\ lobby' = lobbyStore
    /\ GoOn("boot", Rest("boot"))
    /\ UNCHANGED <<storeVars, diskVars, serverVars, current, bound, pendingSeed,
                   boundVars, torn>>

ReadBackupReturns ==
    \E found \in {backup, None} :
        /\ At("boot", "readBackup")
        /\ IF found = backup THEN UNCHANGED faults ELSE faults < MaxFaults /\ faults' = faults + 1
        /\ \/ /\ found \notin {None, Legacy}
              /\ current' = found /\ bound' = found
              /\ task' = [task EXCEPT !["boot"] = [op |-> "boot", d |-> found, todo |-> RestoreHandles]]
           \/ /\ found \in {None, Legacy}
              /\ task' = [task EXCEPT !["boot"] = IF found = None THEN Idle
                                                  ELSE [@ EXCEPT !.todo = Clear \o <<"noCurrent">>]]
              /\ UNCHANGED <<current, bound>>
        /\ UNCHANGED <<storeVars, diskVars, serverVars, lobby, booting, loading, pendingSeed,
                       ops, relaunches, torn>>

\* Only the backup is read, and a failed read finds nothing.  A malformed DID
\* is wiped; a good one becomes current.
ReadBackup ==
    \E found \in {backup, None} :
        /\ At("boot", "readBackup")
        /\ IF found = backup THEN UNCHANGED faults ELSE faults < MaxFaults /\ faults' = faults + 1
        /\ \/ /\ found \notin {None, Legacy}
              /\ current' = found /\ bound' = found
              /\ task' = [task EXCEPT !["boot"] = [op |-> "boot", d |-> found, todo |-> RestoreHandles]]
           \/ /\ found \in {None, Legacy}
              /\ task' = [task EXCEPT !["boot"] = IF found = None THEN Idle
                                                  ELSE [@ EXCEPT !.todo = Clear \o <<"noCurrent">>]]
              /\ UNCHANGED <<current, bound>>
        /\ booting' = (found # None)
        /\ UNCHANGED <<storeVars, diskVars, serverVars, lobby, loading, pendingSeed,
                       ops, relaunches, torn>>

\* The handle store is asked for the identity, which may fail; then the app
\* opens and the record is fetched in the background.
RestoreHandle ==
    /\ At("boot", "handle")
    /\ task' = [task EXCEPT !["boot"] = [@ EXCEPT !.todo = Rest("boot")]]
    /\ booting' = FALSE
    /\ UNCHANGED <<storeVars, diskVars, serverVars, current, lobby, bound, loading,
                   pendingSeed, boundVars, torn>>

\* cleanKeystoreDirectory.
CleanNative(u) ==
    /\ At(u, "native")
    /\ wallets' = {}
    /\ GoOn(u, Rest(u))
    /\ UNCHANGED <<storeVars, diskVars, accounts, half, current, lobby, bound,
                   pendingSeed, boundVars, torn>>

\* It throws: the clean-up and the migration stop; the bootstrap ends in its
\* finally block.
CleanThrows(u) ==
    /\ At(u, "native")
    /\ faults < MaxFaults /\ faults' = faults + 1
    /\ GoOn(u, <<>>)
    /\ UNCHANGED <<storeVars, diskVars, serverVars, current, lobby, bound, pendingSeed,
                   ops, relaunches, torn>>

\* setMigrationRequiredFlag and clearMigrationRequiredFlag.
SetFlag(u) ==
    /\ \/ At(u, "setFlag") /\ flag' = TRUE
       \/ At(u, "clearFlag") /\ flag' = FALSE
    /\ GoOn(u, Rest(u))
    /\ UNCHANGED <<storeVars, lobbyStore, serverVars, current, lobby, bound,
                   pendingSeed, boundVars, torn>>

-----------------------------------------------------------------------------
(***************************************************************************)
(* Calls to the node and to the native identity module.                    *)
(***************************************************************************)

Calls == {"recover", "migrate", "clearSeed", "restored", "wallet", "readId", "begin", "create",
          "complete", "login", "claim", "reregister"}

\* The call succeeds and the operation goes on; a seed the node has already
\* migrated is restored without a clean-up.
Answered(u) ==
    /\ \E s \in Calls : At(u, s)
    /\ At(u, "wallet") => task[u].d \in wallets
    /\ At(u, "readId") => id = task[u].d
    /\ wallets' = IF At(u, "recover") \/ At(u, "restored") \/ At(u, "create")
                  THEN wallets \cup {task[u].d} ELSE wallets
    /\ half' = IF At(u, "create") THEN half \cup {task[u].d}
               ELSE IF At(u, "complete") THEN half \ {task[u].d} ELSE half
    /\ accounts' = IF At(u, "complete") THEN accounts \cup {task[u].d} ELSE accounts
    /\ \/ GoOn(u, Rest(u))
       \/ At(u, "migrate") /\ GoOn(u, Migrated)
    /\ UNCHANGED <<storeVars, diskVars, current, lobby, bound, pendingSeed, boundVars, torn>>

\* The call throws, or answers no.  A seed the chain does not know asks for a
\* migration; a registration that has its wallet rolls back; if the very
\* first call of a registration throws, isLoading stays set; a migration goes
\* on without the wallet it could not store.
Refused(u) ==
    /\ \E s \in Calls \cup {"saveLobby"} : At(u, s)
    /\ faults < MaxFaults /\ faults' = faults + 1
    /\ \/ /\ At(u, "begin")
          /\ task' = [task EXCEPT ![u] = Idle] /\ UNCHANGED <<loading, booting, flag, current, bound>>
       \/ /\ At(u, "recover")
          /\ GoOn(u, <<>>)
          /\ \/ UNCHANGED <<flag, current, bound>>
             \/ flag' = TRUE /\ current' = None /\ bound' = IF current # None THEN None ELSE bound
       \/ /\ ~At(u, "begin") /\ ~At(u, "recover")
          /\ GoOn(u, IF At(u, "restored") THEN Rest(u)
                     ELSE IF task[u].op = "register" /\ ~At(u, "create") THEN Rollback ELSE <<>>)
          /\ UNCHANGED <<flag, current, bound>>
    /\ UNCHANGED <<storeVars, lobbyStore, serverVars, lobby,
                   pendingSeed, ops, relaunches, torn>>

\* adoptLobbySession, and its removal at sign-out.
LobbyChanges(u) ==
    /\ \/ At(u, "saveLobby") /\ lobbyStore' = task[u].d /\ lobby' = task[u].d
       \/ At(u, "rmLobby") /\ lobbyStore' = None /\ lobby' = None
    /\ GoOn(u, Rest(u))
    /\ UNCHANGED <<storeVars, flag, serverVars, current, bound, pendingSeed, boundVars, torn>>

\* bindQuicIdentity of a registration, and the rollback of both.
Bind(u) ==
    /\ At(u, "bind") \/ At(u, "unbind")
    /\ bound' = IF At(u, "bind") THEN task[u].d ELSE None
    /\ Overlaps(u)
    /\ GoOn(u, Rest(u))
    /\ UNCHANGED <<storeVars, diskVars, serverVars, current, lobby, pendingSeed, boundVars>>

\* cleanSpecificIdentity: the native key store, then the DID cache if it names
\* the same identity; the rollback ends even if one of them throws.
RemoveWallet(u) ==
    /\ At(u, "rmWallet")
    /\ \/ /\ wallets' = wallets \ {task[u].d}
          /\ id' = IF id = task[u].d THEN None ELSE id
          /\ UNCHANGED faults
       \/ /\ wallets' \in {wallets, wallets \ {task[u].d}}
          /\ faults < MaxFaults /\ faults' = faults + 1
          /\ UNCHANGED id
    /\ GoOn(u, Rest(u))
    /\ UNCHANGED <<keychain, backup, readable, cut, diskVars, accounts, half, current, lobby,
                   bound, pendingSeed, ops, relaunches, torn>>

\* The screen goes on to the seed phrase.
ShowSeed(u) ==
    /\ At(u, "show")
    /\ pendingSeed' = task[u].d
    /\ GoOn(u, Rest(u))
    /\ UNCHANGED <<storeVars, diskVars, serverVars, current, lobby, bound, boundVars, torn>>

\* fetchIdentityRecord: nothing to merge, or the merged identity is saved.
Fetch(u, changed) ==
    /\ At(u, "fetch")
    /\ GoOn(u, IF changed THEN Hydrated ELSE <<>>)
    /\ UNCHANGED <<storeVars, diskVars, serverVars, current, lobby, bound,
                   pendingSeed, boundVars, torn>>

\* loadIdentityOnDemand: the keychain; if it has nothing the backup; if its
\* entry cannot be decrypted the backup, which is then stored again.  A
\* cancelled prompt or another error finds nothing.
ReadKeychain(u) ==
    /\ At(u, "readKeychain")
    /\ \/ /\ keychain # None /\ readable
          /\ task' = [task EXCEPT ![u] = [@ EXCEPT !.d = keychain, !.todo = Rest(u)]]
       \/ /\ keychain = None
          /\ task' = [task EXCEPT ![u] = [@ EXCEPT !.todo = LoadBackup]]
       \/ /\ ~readable
          /\ \E todo \in {LoadBackup, RestoreBackup} : task' = [task EXCEPT ![u] = [@ EXCEPT !.todo = todo]]
       \/ task' = [task EXCEPT ![u] = Idle]
    /\ UNCHANGED <<storeVars, diskVars, serverVars, current, lobby, bound, booting, loading,
                   pendingSeed, boundVars, torn>>

\* restoreFromBackup; a failed read finds nothing.
Fallback(u) ==
    /\ At(u, "fallback")
    /\ \E found \in {backup, None} :
          /\ IF found = backup THEN UNCHANGED faults ELSE faults < MaxFaults /\ faults' = faults + 1
          /\ task' = [task EXCEPT ![u] = IF found = None THEN Idle
                                         ELSE [@ EXCEPT !.d = found, !.todo = Rest(u)]]
    /\ UNCHANGED <<storeVars, diskVars, serverVars, current, lobby, bound, booting, loading,
                   pendingSeed, ops, relaunches, torn>>

\* A change of the biometrics or the lock, or a system update, resets the
\* Android Keystore: the keychain's entry can no longer be decrypted.
KeystoreReset ==
    /\ keychain # None /\ readable
    /\ readable' = FALSE
    /\ UNCHANGED <<keychain, backup, id, cut, diskVars, serverVars, current, lobby, bound,
                   booting, loading, pendingSeed, task, boundVars, torn>>

-----------------------------------------------------------------------------
\* A save or a wipe has begun and not ended; a clean-up drops the DID cache
\* before it clears the keychain.
Between(u) == \E step \in {"backup", "id", "rmKeychain", "rmBackup", "rmId"} : At(u, step)

\* The app dies and is started again.  Nothing rolls back a registration that
\* this interrupts.
Relaunch ==
    /\ relaunches < MaxRelaunches /\ relaunches' = relaunches + 1
    /\ cut' = (cut \/ \E u \in Actors : Between(u))
    /\ half' = half \ {task[u].d : u \in {v \in Actors : task[v].op = "register"}}
    /\ current' = None /\ lobby' = None /\ bound' = None
    /\ booting' = TRUE /\ loading' = FALSE
    /\ pendingSeed' = None
    /\ task' = Launched
    /\ UNCHANGED <<keychain, backup, id, readable, diskVars, wallets, accounts, ops, faults, torn>>

BootStep ==
    \/ ReadFlag \/ LoadLobby \/ ReadBackup \/ RestoreHandle
    \/ CleanNative("boot") \/ ClearStore("boot") \/ ClearCurrent("boot")

Next ==
    \/ \E d \in Dids : ScreenBegins(d) \/ RegisterBegins(d)
    \/ SeedConfirmed \/ AutoBegins
    \/ ReadFlag \/ LoadLobby \/ ReadBackup \/ RestoreHandle
    \/ \E u \in Actors :
          \/ WriteStore(u) \/ ClearStore(u) \/ StoreThrows(u)
          \/ SetCurrent(u) \/ ClearCurrent(u)
          \/ CleanNative(u) \/ CleanThrows(u) \/ SetFlag(u)
          \/ Answered(u) \/ Refused(u) \/ LobbyChanges(u) \/ Bind(u) \/ RemoveWallet(u)
          \/ ShowSeed(u) \/ \E changed \in BOOLEAN : Fetch(u, changed)
          \/ ReadKeychain(u) \/ Fallback(u)
    \/ KeystoreReset \/ Relaunch

\* Keychain, storage and native calls of the bootstrap return.
Spec == Init /\ [][Next]_vars /\ WF_vars(BootStep)

-----------------------------------------------------------------------------
(***************************************************************************)
(* Properties.                                                             *)
(***************************************************************************)

\* An account whose registration failed is rolled back so completely that no
\* later launch, sign-in or on-demand load signs the user in to it.
NoHalfAccount == ~torn => current \notin half

\* At rest the current identity is the one the next launch restores from the
\* backup; and unless the app died in the middle of a save or a wipe that none
\* has followed since, the DID cache that requests send as identity and what
\* an on-demand load reads from the keychain, if the Keystore can still
\* decrypt it, name the same.  All this unless a storage call failed or two
\* operations changed the identity at the same time.
StorageAgrees ==
    Quiescent /\ ~torn => /\ ~cut => backup = id /\ (readable => keychain = backup)
                          /\ current # None => current = backup

\* At rest the QUIC session manager is bound to the current identity, although
\* a registration binds it by hand before there is one.
SessionFollowsIdentity ==
    Quiescent /\ ~torn /\ current # None => bound = current

\* The splash screen always goes away, whatever the flag, the stored identity
\* and failing storage calls do.
BootFinishes == booting ~> ~booting
=============================================================================
