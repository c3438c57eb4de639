------------------------- MODULE AuthLifecycleProofs -------------------------
(***************************************************************************)
(* What AuthLifecycle promises for any number of identities, operations,   *)
(* failures and relaunches.                                                *)
(*                                                                         *)
(* A task is the sequence of its remaining steps.  The first part turns    *)
(* that into control flow: the place a task is at, and the places that may *)
(* follow it.  The invariants that come after speak of places only.        *)
(***************************************************************************)
EXTENDS AuthLifecycle, SequenceTheorems, TLAPS

(***************************************************************************)
(* The programs of the operations.                                         *)
(***************************************************************************)
Suffixes(P) == {SubSeq(P, k, Len(P)) : k \in 1..Len(P)}
Wipe == CleanAll \o <<"noCurrent">>

\* What may be left of an operation is the end of one of these: its program, a
\* hydration once its record was fetched, the rollback of a registration.
Scripts(op) ==
    CASE op = "boot"     -> {Boot, Wipe, RestoreHandles, Hydrated}
      [] op = "recover"  -> {RecoverIdentity, Hydrated}
      [] op = "signIn"   -> {UpgradeLegacy, PasswordSignIn, Hydrated}
      [] op = "migrate"  -> {MigrateFromSeed}
      [] op = "demand"   -> {LoadOnDemand, LoadBackup, RestoreBackup}
      [] op = "update"   -> {Hydrated, UpdatePassphrase}
      [] op = "signOut"  -> {SignOut}
      [] op = "register" -> {RegisterAccount, Rollback}
      [] op = "seed"     -> {Activate, Hydrated}
      [] op = "cleanup"  -> {ForceCleanup}
      [] op = "claim"    -> {ClaimUsername}
      [] op = "rereg"    -> {Reregister, Hydrated}

Runs(u, op) ==
    \/ u = "boot" /\ op = "boot"
    \/ u = "screen" /\ op \in {"recover", "signIn", "migrate", "demand", "signOut", "update", "register"}
    \/ u = "seed" /\ op = "seed"
    \/ u = "auto" /\ op \in {"cleanup", "claim", "rereg"}

\* The operations on an identity that was found in the stores.
Found == {"boot", "demand", "signOut", "update"}

ScriptInv ==
    \A u \in Actors : task[u] # Idle =>
        /\ Runs(u, task[u].op)
        /\ task[u].op \notin Found => task[u].d \in Dids
        /\ \E P \in Scripts(task[u].op) : task[u].todo \in Suffixes(P)

\* The step that a sequence of steps begins with.
First(s) == IF s = <<>> THEN "end" ELSE Head(s)
Place(u) == First(task[u].todo)

\* The flow of control: y may follow x in an operation.
StoreFlow(x, y, z) == \/ x = "keychain" /\ y = "backup"
                      \/ x = "backup" /\ y = "id"
                      \/ x = "id" /\ y = z
ClearFlow(x, y, z) == \/ x = "rmKeychain" /\ y = "rmBackup"
                      \/ x = "rmBackup" /\ y = "rmId"
                      \/ x = "rmId" /\ y = z
Follows(op, x, y) ==
    \/ /\ op \in {"boot", "recover", "signIn", "seed", "claim", "rereg", "update"}
       /\ \/ StoreFlow(x, y, "current")
          \/ x = "current" /\ y \in {"fetch", "end"}
    \/ /\ op \in {"boot", "recover", "signIn", "seed", "rereg"}
       /\ x = "fetch" /\ y = "end"
    \/ op = "rereg" /\ x = "reregister" /\ y = "keychain"
    \/ op = "recover" /\ x = "recover" /\ y = "keychain"
    \/ op = "claim" /\ x = "claim" /\ y = "keychain"
    \/ op = "signIn" /\ \/ x = "readId" /\ y = "complete"
                        \/ x = "complete" /\ y = "login"
                        \/ x = "login" /\ y = "saveLobby"
                        \/ x = "saveLobby" /\ y = "wallet"
                        \/ x = "wallet" /\ y = "keychain"
    \/ op = "register" /\ \/ x = "begin" /\ y = "create"
                          \/ x = "create" /\ y = "keychain"
                          \/ StoreFlow(x, y, "bind")
                          \/ x = "bind" /\ y = "complete"
                          \/ x = "complete" /\ y = "login"
                          \/ x = "login" /\ y = "saveLobby"
                          \/ x = "saveLobby" /\ y = "show"
                          \/ x = "show" /\ y = "end"
                          \/ x = "unbind" /\ y = "rmKeychain"
                          \/ ClearFlow(x, y, "rmWallet")
                          \/ x = "rmWallet" /\ y = "end"
    \/ op = "migrate" /\ \/ x = "migrate" /\ y \in {"native", "restored"}
                         \/ ClearFlow(x, y, "clearSeed")
                         \/ x = "clearSeed" /\ y = "restored"
                         \/ x = "restored" /\ y = "keychain"
                         \/ StoreFlow(x, y, "clearFlag")
                         \/ x = "clearFlag" /\ y = "show"
                         \/ x = "show" /\ y = "end"
    \/ op = "demand" /\ \/ x = "readKeychain" /\ y = "current"
                        \/ x = "fallback" /\ y \in {"current", "keychain"}
                        \/ StoreFlow(x, y, "current")
                        \/ x = "current" /\ y = "syncBackup"
                        \/ x = "syncBackup" /\ y = "end"
    \/ op = "signOut" /\ \/ ClearFlow(x, y, "noCurrent")
                         \/ x = "noCurrent" /\ y = "rmLobby"
                         \/ x = "rmLobby" /\ y = "end"
    \/ op = "cleanup" /\ x = "setFlag" /\ y = "native"
    \/ op \in {"boot", "cleanup", "migrate"} /\ \/ x = "native" /\ y = "dropId"
                                                \/ x = "dropId" /\ y = "rmKeychain"
    \/ op \in {"boot", "cleanup"} /\ \/ ClearFlow(x, y, "noCurrent")
                                     \/ x = "noCurrent" /\ y = "end"
    \/ op = "boot" /\ \/ x = "readFlag" /\ y = "loadLobby"
                      \/ x = "loadLobby" /\ y = "readBackup"
                      \/ x = "readBackup" /\ y = "end"
                      \/ x = "handle" /\ y = "fetch"

\* A rest of a program begins at a place of it and goes on with the next.
LEMMA SuffixFlow ==
    ASSUME NEW P \in Seq(Steps), NEW s \in Suffixes(P)
    PROVE  /\ s \in Seq(Steps) /\ s # <<>> /\ Tail(s) \in Seq(Steps)
           /\ Tail(s) # <<>> => Tail(s) \in Suffixes(P)
           /\ \E k \in 1..Len(P) : /\ First(s) = P[k]
                                   /\ First(Tail(s)) = IF k = Len(P) THEN "end" ELSE P[k + 1]
                                   /\ Range(s) = {P[j] : j \in k..Len(P)}
<1>1. PICK k \in 1..Len(P) : s = SubSeq(P, k, Len(P))
  BY DEF Suffixes
<1>2. s \in Seq(Steps) /\ Len(s) = Len(P) - k + 1 /\ \A j \in 1..Len(s) : s[j] = P[k + j - 1]
  BY <1>1
<1>3. s # <<>> /\ Head(s) = P[k]
  BY <1>2
<1> DEFINE r == Tail(s)
<1>4. r \in Seq(Steps) /\ Len(r) = Len(s) - 1 /\ \A j \in 1..Len(r) : r[j] = s[j + 1]
  BY <1>2, <1>3
<1> HIDE DEF r
<1>5. Range(s) = {P[j] : j \in k..Len(P)}
  <2>1. \A j \in 1..Len(s) : s[j] = P[k + j - 1] /\ k + j - 1 \in k..Len(P)
    BY <1>2
  <2>2. \A j \in k..Len(P) : P[j] = s[j - k + 1] /\ j - k + 1 \in 1..Len(s)
    BY <1>2
  <2>d. DOMAIN s = 1..Len(s)
    BY <1>2
  <2>3. Range(s) = {s[j] : j \in 1..Len(s)}
    BY <2>d DEF Range
  <2>4. ASSUME NEW j \in 1..Len(s) PROVE s[j] \in {P[i] : i \in k..Len(P)}
    BY <2>1, Zenon
  <2>5. ASSUME NEW j \in k..Len(P) PROVE P[j] \in {s[i] : i \in 1..Len(s)}
    BY <2>2, Zenon
  <2> QED
    BY <2>3, <2>4, <2>5, Zenon
<1>6. CASE k = Len(P)
  <2>1. Len(r) = 0
    BY <1>2, <1>4, <1>6
  <2>2. r = <<>>
    BY <1>4, <2>1, EmptySeq
  <2> QED
    BY <1>2, <1>3, <1>4, <1>5, <1>6, <2>2 DEF First, r
<1>7. CASE k # Len(P)
  <2> DEFINE t == SubSeq(P, k + 1, Len(P))
  <2>1. t \in Seq(Steps) /\ Len(t) = Len(P) - k /\ \A j \in 1..Len(t) : t[j] = P[k + j]
    BY <1>7
  <2>2. t \in Suffixes(P)
    <3>1. k + 1 \in 1..Len(P)
      BY <1>7
    <3> QED
      BY <3>1 DEF Suffixes
  <2> HIDE DEF t
  <2>3. Len(r) = Len(t)
    BY <1>2, <1>4, <1>7, <2>1
  <2>4. ASSUME NEW j \in 1..Len(r) PROVE r[j] = t[j]
    <3>1. j + 1 \in 1..Len(s) /\ k + (j + 1) - 1 = k + j
      BY <1>2, <1>4
    <3>2. s[j + 1] = P[k + j] /\ t[j] = P[k + j]
      BY <1>2, <2>1, <2>3, <3>1
    <3> QED
      BY <1>4, <3>2
  <2>5. r = t
    BY <1>4, <2>1, <2>3, <2>4, SeqEqual
  <2>6. t # <<>> /\ Head(t) = P[k + 1]
    BY <1>7, <2>1
  <2> QED
    BY <1>2, <1>3, <1>4, <1>5, <1>7, <2>2, <2>5, <2>6 DEF First, r
<1> QED
  BY <1>6, <1>7

-----------------------------------------------------------------------------
\* The names of the steps.
LEMMA StepNames ==
    \A s : s \in Steps <=>
        s \in {"keychain", "backup", "id", "rmKeychain", "rmBackup", "rmId", "dropId",
               "syncBackup", "current", "noCurrent", "bind", "unbind", "readFlag", "loadLobby",
               "readBackup", "fetch", "recover", "migrate", "wallet", "readId", "begin",
               "create", "complete", "login", "claim", "saveLobby", "rmLobby", "rmWallet",
               "show", "setFlag", "clearFlag", "native", "readKeychain", "fallback", "handle",
               "clearSeed", "restored", "reregister"}
BY DEF Steps, IdentitySteps, StoreSteps, Store, Clear, Range

\* The programs, written out.
LEMMA Programs ==
    /\ Boot = <<"readFlag", "loadLobby", "readBackup">>
    /\ RestoreHandles = <<"handle", "fetch">>
    /\ UpdatePassphrase = <<"current">>
    /\ LoadOnDemand = <<"readKeychain", "current", "syncBackup">>
    /\ LoadBackup = <<"fallback", "current", "syncBackup">>
    /\ RestoreBackup = <<"fallback", "keychain", "backup", "id", "current", "syncBackup">>
    /\ Reregister = <<"reregister", "keychain", "backup", "id", "current", "fetch">>
    /\ Hydrated = <<"keychain", "backup", "id", "current">>
    /\ Activate = <<"keychain", "backup", "id", "current", "fetch">>
    /\ CleanAll = <<"native", "dropId", "rmKeychain", "rmBackup", "rmId">>
    /\ Wipe = <<"native", "dropId", "rmKeychain", "rmBackup", "rmId", "noCurrent">>
    /\ RecoverIdentity = <<"recover", "keychain", "backup", "id", "current", "fetch">>
    /\ PasswordSignIn = <<"login", "saveLobby", "wallet", "keychain", "backup", "id",
                          "current", "fetch">>
    /\ UpgradeLegacy = <<"readId", "complete", "login", "saveLobby", "wallet",
                         "keychain", "backup", "id", "current", "fetch">>
    /\ RegisterAccount = <<"begin", "create", "keychain", "backup", "id", "bind",
                           "complete", "login", "saveLobby", "show">>
    /\ Rollback = <<"unbind", "rmKeychain", "rmBackup", "rmId", "rmWallet">>
    /\ Migrated = <<"restored", "keychain", "backup", "id", "clearFlag", "show">>
    /\ Migrating = <<"clearSeed", "restored", "keychain", "backup", "id", "clearFlag", "show">>
    /\ MigrateFromSeed = <<"migrate", "native", "dropId", "rmKeychain", "rmBackup", "rmId", "clearSeed",
                           "restored", "keychain", "backup", "id", "clearFlag", "show">>
    /\ SignOut = <<"rmKeychain", "rmBackup", "rmId", "noCurrent", "rmLobby">>
    /\ ForceCleanup = <<"setFlag", "native", "dropId", "rmKeychain", "rmBackup",
                        "rmId", "noCurrent">>
    /\ ClaimUsername = <<"claim", "keychain", "backup", "id", "current">>
<1>1. Hydrated = <<"keychain", "backup", "id", "current">>
  <2>1. Hydrated \in Seq(Steps) /\ Len(Hydrated) = 4
    BY StepNames DEF Hydrated, Store
  <2>2. /\ Hydrated[1] = "keychain" /\ Hydrated[2] = "backup" /\ Hydrated[3] = "id"
        /\ Hydrated[4] = "current"
    BY <2>1, StepNames DEF Hydrated, Store
  <2> QED
    BY <2>1, <2>2
<1>2. Activate = <<"keychain", "backup", "id", "current", "fetch">>
  <2>1. Activate \in Seq(Steps) /\ Len(Activate) = 5
    BY StepNames DEF Activate, Store
  <2>2. /\ Activate[1] = "keychain" /\ Activate[2] = "backup" /\ Activate[3] = "id"
        /\ Activate[4] = "current" /\ Activate[5] = "fetch"
    BY <2>1, StepNames DEF Activate, Store
  <2> QED
    BY <2>1, <2>2
<1>3. CleanAll = <<"native", "dropId", "rmKeychain", "rmBackup", "rmId">>
  <2>1. CleanAll \in Seq(Steps) /\ Len(CleanAll) = 5
    BY StepNames DEF CleanAll, Clear
  <2>2. /\ CleanAll[1] = "native" /\ CleanAll[2] = "dropId" /\ CleanAll[3] = "rmKeychain"
        /\ CleanAll[4] = "rmBackup" /\ CleanAll[5] = "rmId"
    BY <2>1, StepNames DEF CleanAll, Clear
  <2> QED
    BY <2>1, <2>2
<1>4. Wipe = <<"native", "dropId", "rmKeychain", "rmBackup", "rmId", "noCurrent">>
  <2>1. Wipe \in Seq(Steps) /\ Len(Wipe) = 6
    BY StepNames DEF Wipe, CleanAll, Clear
  <2>2. /\ Wipe[1] = "native" /\ Wipe[2] = "dropId" /\ Wipe[3] = "rmKeychain"
        /\ Wipe[4] = "rmBackup" /\ Wipe[5] = "rmId" /\ Wipe[6] = "noCurrent"
    BY <2>1, StepNames DEF Wipe, CleanAll, Clear
  <2> QED
    BY <2>1, <2>2
<1>5. RecoverIdentity = <<"recover", "keychain", "backup", "id", "current", "fetch">>
  <2>1. RecoverIdentity \in Seq(Steps) /\ Len(RecoverIdentity) = 6
    BY StepNames DEF RecoverIdentity, Activate, Store
  <2>2. /\ RecoverIdentity[1] = "recover" /\ RecoverIdentity[2] = "keychain" /\ RecoverIdentity[3] = "backup"
        /\ RecoverIdentity[4] = "id" /\ RecoverIdentity[5] = "current" /\ RecoverIdentity[6] = "fetch"
    BY <2>1, StepNames DEF RecoverIdentity, Activate, Store
  <2> QED
    BY <2>1, <2>2
<1>6. PasswordSignIn = <<"login", "saveLobby", "wallet", "keychain", "backup", "id",
                         "current", "fetch">>
  <2>1. PasswordSignIn \in Seq(Steps) /\ Len(PasswordSignIn) = 8
    BY StepNames DEF PasswordSignIn, Login, Activate, Store
  <2>2. /\ PasswordSignIn[1] = "login" /\ PasswordSignIn[2] = "saveLobby" /\ PasswordSignIn[3] = "wallet"
        /\ PasswordSignIn[4] = "keychain" /\ PasswordSignIn[5] = "backup" /\ PasswordSignIn[6] = "id"
        /\ PasswordSignIn[7] = "current" /\ PasswordSignIn[8] = "fetch"
    BY <2>1, StepNames DEF PasswordSignIn, Login, Activate, Store
  <2> QED
    BY <2>1, <2>2
<1>7. UpgradeLegacy = <<"readId", "complete", "login", "saveLobby", "wallet",
                        "keychain", "backup", "id", "current", "fetch">>
  <2>1. UpgradeLegacy \in Seq(Steps) /\ Len(UpgradeLegacy) = 10
    BY StepNames DEF UpgradeLegacy, PasswordSignIn, Login, Activate, Store
  <2>2. /\ UpgradeLegacy[1] = "readId" /\ UpgradeLegacy[2] = "complete" /\ UpgradeLegacy[3] = "login"
        /\ UpgradeLegacy[4] = "saveLobby" /\ UpgradeLegacy[5] = "wallet" /\ UpgradeLegacy[6] = "keychain"
        /\ UpgradeLegacy[7] = "backup" /\ UpgradeLegacy[8] = "id" /\ UpgradeLegacy[9] = "current"
        /\ UpgradeLegacy[10] = "fetch"
    BY <2>1, StepNames DEF UpgradeLegacy, PasswordSignIn, Login, Activate, Store
  <2> QED
    BY <2>1, <2>2
<1>8. RegisterAccount = <<"begin", "create", "keychain", "backup", "id", "bind",
                          "complete", "login", "saveLobby", "show">>
  <2>1. RegisterAccount \in Seq(Steps) /\ Len(RegisterAccount) = 10
    BY StepNames DEF RegisterAccount, Store, Login
  <2>2. /\ RegisterAccount[1] = "begin" /\ RegisterAccount[2] = "create" /\ RegisterAccount[3] = "keychain"
        /\ RegisterAccount[4] = "backup" /\ RegisterAccount[5] = "id" /\ RegisterAccount[6] = "bind"
        /\ RegisterAccount[7] = "complete" /\ RegisterAccount[8] = "login" /\ RegisterAccount[9] = "saveLobby"
        /\ RegisterAccount[10] = "show"
    BY <2>1, StepNames DEF RegisterAccount, Store, Login
  <2> QED
    BY <2>1, <2>2
<1>9. Rollback = <<"unbind", "rmKeychain", "rmBackup", "rmId", "rmWallet">>
  <2>1. Rollback \in Seq(Steps) /\ Len(Rollback) = 5
    BY StepNames DEF Rollback, Clear
  <2>2. /\ Rollback[1] = "unbind" /\ Rollback[2] = "rmKeychain" /\ Rollback[3] = "rmBackup"
        /\ Rollback[4] = "rmId" /\ Rollback[5] = "rmWallet"
    BY <2>1, StepNames DEF Rollback, Clear
  <2> QED
    BY <2>1, <2>2
<1>10. MigrateFromSeed = <<"migrate", "native", "dropId", "rmKeychain", "rmBackup", "rmId",
                           "clearSeed", "restored", "keychain", "backup", "id", "clearFlag",
                           "show">>
  <2>1. MigrateFromSeed \in Seq(Steps) /\ Len(MigrateFromSeed) = 13
    BY StepNames DEF MigrateFromSeed, CleanAll, Clear, Migrating, Migrated, Store
  <2>2. /\ MigrateFromSeed[1] = "migrate" /\ MigrateFromSeed[2] = "native" /\ MigrateFromSeed[3] = "dropId"
        /\ MigrateFromSeed[4] = "rmKeychain" /\ MigrateFromSeed[5] = "rmBackup" /\ MigrateFromSeed[6] = "rmId"
        /\ MigrateFromSeed[7] = "clearSeed" /\ MigrateFromSeed[8] = "restored" /\ MigrateFromSeed[9] = "keychain"
        /\ MigrateFromSeed[10] = "backup" /\ MigrateFromSeed[11] = "id" /\ MigrateFromSeed[12] = "clearFlag"
        /\ MigrateFromSeed[13] = "show"
    BY <2>1, StepNames DEF MigrateFromSeed, CleanAll, Clear, Migrating, Migrated, Store
  <2> QED
    BY <2>1, <2>2
<1>14. Migrated = <<"restored", "keychain", "backup", "id", "clearFlag", "show">>
  <2>1. Migrated \in Seq(Steps) /\ Len(Migrated) = 6
    BY StepNames DEF Migrated, Store
  <2>2. /\ Migrated[1] = "restored" /\ Migrated[2] = "keychain" /\ Migrated[3] = "backup"
        /\ Migrated[4] = "id" /\ Migrated[5] = "clearFlag" /\ Migrated[6] = "show"
    BY <2>1, StepNames DEF Migrated, Store
  <2> QED
    BY <2>1, <2>2
<1>15. Migrating = <<"clearSeed", "restored", "keychain", "backup", "id", "clearFlag", "show">>
  <2>1. Migrating \in Seq(Steps) /\ Len(Migrating) = 7
    BY StepNames DEF Migrating, Migrated, Store
  <2>2. /\ Migrating[1] = "clearSeed" /\ Migrating[2] = "restored" /\ Migrating[3] = "keychain"
        /\ Migrating[4] = "backup" /\ Migrating[5] = "id" /\ Migrating[6] = "clearFlag"
        /\ Migrating[7] = "show"
    BY <2>1, StepNames DEF Migrating, Migrated, Store
  <2> QED
    BY <2>1, <2>2
<1>16. Reregister = <<"reregister", "keychain", "backup", "id", "current", "fetch">>
  <2>1. Reregister \in Seq(Steps) /\ Len(Reregister) = 6
    BY StepNames DEF Reregister, Activate, Store
  <2>2. /\ Reregister[1] = "reregister" /\ Reregister[2] = "keychain" /\ Reregister[3] = "backup"
        /\ Reregister[4] = "id" /\ Reregister[5] = "current" /\ Reregister[6] = "fetch"
    BY <2>1, StepNames DEF Reregister, Activate, Store
  <2> QED
    BY <2>1, <2>2
<1>17. RestoreBackup = <<"fallback", "keychain", "backup", "id", "current", "syncBackup">>
  <2>1. RestoreBackup \in Seq(Steps) /\ Len(RestoreBackup) = 6
    BY StepNames DEF RestoreBackup, Store
  <2>2. /\ RestoreBackup[1] = "fallback" /\ RestoreBackup[2] = "keychain" /\ RestoreBackup[3] = "backup"
        /\ RestoreBackup[4] = "id" /\ RestoreBackup[5] = "current" /\ RestoreBackup[6] = "syncBackup"
    BY <2>1, StepNames DEF RestoreBackup, Store
  <2> QED
    BY <2>1, <2>2
<1>11. SignOut = <<"rmKeychain", "rmBackup", "rmId", "noCurrent", "rmLobby">>
  <2>1. SignOut \in Seq(Steps) /\ Len(SignOut) = 5
    BY StepNames DEF SignOut, Clear
  <2>2. /\ SignOut[1] = "rmKeychain" /\ SignOut[2] = "rmBackup" /\ SignOut[3] = "rmId"
        /\ SignOut[4] = "noCurrent" /\ SignOut[5] = "rmLobby"
    BY <2>1, StepNames DEF SignOut, Clear
  <2> QED
    BY <2>1, <2>2
<1>12. ForceCleanup = <<"setFlag", "native", "dropId", "rmKeychain", "rmBackup",
                        "rmId", "noCurrent">>
  <2>1. ForceCleanup \in Seq(Steps) /\ Len(ForceCleanup) = 7
    BY StepNames DEF ForceCleanup, CleanAll, Clear
  <2>2. /\ ForceCleanup[1] = "setFlag" /\ ForceCleanup[2] = "native" /\ ForceCleanup[3] = "dropId"
        /\ ForceCleanup[4] = "rmKeychain" /\ ForceCleanup[5] = "rmBackup" /\ ForceCleanup[6] = "rmId"
        /\ ForceCleanup[7] = "noCurrent"
    BY <2>1, StepNames DEF ForceCleanup, CleanAll, Clear
  <2> QED
    BY <2>1, <2>2
<1>13. ClaimUsername = <<"claim", "keychain", "backup", "id", "current">>
  <2>1. ClaimUsername \in Seq(Steps) /\ Len(ClaimUsername) = 5
    BY StepNames DEF ClaimUsername, Hydrated, Store
  <2>2. /\ ClaimUsername[1] = "claim" /\ ClaimUsername[2] = "keychain" /\ ClaimUsername[3] = "backup"
        /\ ClaimUsername[4] = "id" /\ ClaimUsername[5] = "current"
    BY <2>1, StepNames DEF ClaimUsername, Hydrated, Store
  <2> QED
    BY <2>1, <2>2
<1> QED
  BY <1>1, <1>2, <1>3, <1>4, <1>5, <1>6, <1>7, <1>8, <1>9, <1>10, <1>11, <1>12, <1>13,
     <1>14, <1>15, <1>16, <1>17 DEF Boot, LoadOnDemand, LoadBackup, RestoreHandles, UpdatePassphrase

\* The programs follow the flow of their operations.
Along(op, P) ==
    /\ P \in Seq(Steps)
    /\ \A k \in 1..Len(P) : Follows(op, P[k], IF k = Len(P) THEN "end" ELSE P[k + 1])

LEMMA ProgramsFlow ==
    \A op \in Ops \ {"none"} : \A P \in Scripts(op) : Along(op, P)
<1>1. ASSUME NEW P, P = Boot PROVE Along("boot", P)
  BY <1>1, StepNames, Programs DEF Along, Follows, StoreFlow, ClearFlow
<1>2. ASSUME NEW P, P = Wipe PROVE Along("boot", P)
  BY <1>2, StepNames, Programs DEF Along, Follows, StoreFlow, ClearFlow
<1>3. ASSUME NEW P, P = RestoreHandles PROVE Along("boot", P)
  BY <1>3, StepNames, Programs DEF Along, Follows, StoreFlow, ClearFlow
<1>4. ASSUME NEW P, P = RecoverIdentity PROVE Along("recover", P)
  BY <1>4, StepNames, Programs DEF Along, Follows, StoreFlow, ClearFlow
<1>5. ASSUME NEW P, P = UpgradeLegacy PROVE Along("signIn", P)
  BY <1>5, StepNames, Programs DEF Along, Follows, StoreFlow, ClearFlow
<1>6. ASSUME NEW P, P = MigrateFromSeed PROVE Along("migrate", P)
  BY <1>6, StepNames, Programs DEF Along, Follows, StoreFlow, ClearFlow
<1>7. ASSUME NEW P, P = LoadOnDemand PROVE Along("demand", P)
  BY <1>7, StepNames, Programs DEF Along, Follows, StoreFlow, ClearFlow
<1>8. ASSUME NEW P, P = SignOut PROVE Along("signOut", P)
  BY <1>8, StepNames, Programs DEF Along, Follows, StoreFlow, ClearFlow
<1>9. ASSUME NEW P, P = RegisterAccount PROVE Along("register", P)
  BY <1>9, StepNames, Programs DEF Along, Follows, StoreFlow, ClearFlow
<1>10. ASSUME NEW P, P = Rollback PROVE Along("register", P)
  BY <1>10, StepNames, Programs DEF Along, Follows, StoreFlow, ClearFlow
<1>11. ASSUME NEW P, P = Activate PROVE Along("seed", P)
  BY <1>11, StepNames, Programs DEF Along, Follows, StoreFlow, ClearFlow
<1>12. ASSUME NEW P, P = ForceCleanup PROVE Along("cleanup", P)
  BY <1>12, StepNames, Programs DEF Along, Follows, StoreFlow, ClearFlow
<1>13. ASSUME NEW P, P = ClaimUsername PROVE Along("claim", P)
  BY <1>13, StepNames, Programs DEF Along, Follows, StoreFlow, ClearFlow
<1>14. ASSUME NEW P, P = Hydrated, NEW op \in {"boot", "recover", "signIn", "seed", "rereg", "update"}
       PROVE  Along(op, P)
  BY <1>14, StepNames, Programs DEF Along, Follows, StoreFlow, ClearFlow
<1>15. ASSUME NEW P, P = PasswordSignIn PROVE Along("signIn", P)
  BY <1>15, StepNames, Programs DEF Along, Follows, StoreFlow, ClearFlow
<1>16. ASSUME NEW P, P = LoadBackup PROVE Along("demand", P)
  BY <1>16, StepNames, Programs DEF Along, Follows, StoreFlow, ClearFlow
<1>17. ASSUME NEW P, P = RestoreBackup PROVE Along("demand", P)
  BY <1>17, StepNames, Programs DEF Along, Follows, StoreFlow, ClearFlow
<1>18. ASSUME NEW P, P = UpdatePassphrase PROVE Along("update", P)
  BY <1>18, StepNames, Programs DEF Along, Follows, StoreFlow, ClearFlow
<1>19. ASSUME NEW P, P = Reregister PROVE Along("rereg", P)
  BY <1>19, StepNames, Programs DEF Along, Follows, StoreFlow, ClearFlow
<1> QED
  BY <1>1, <1>2, <1>3, <1>4, <1>5, <1>6, <1>7, <1>8, <1>9, <1>10, <1>11, <1>12, <1>13, <1>14, <1>15,
     <1>16, <1>17, <1>18, <1>19
     DEF Scripts, Ops, Loaders

\* What is left of an operation begins at a place of it and goes on along its
\* flow.
LEMMA Flow ==
    ASSUME NEW op \in Ops \ {"none"}, NEW P \in Scripts(op), NEW s \in Suffixes(P)
    PROVE  /\ s \in Seq(Steps) /\ s # <<>> /\ Tail(s) \in Seq(Steps)
           /\ Tail(s) # <<>> => Tail(s) \in Suffixes(P)
           /\ Follows(op, First(s), First(Tail(s)))
           /\ First(s) \in Range(s)
           /\ op = "migrate" /\ First(s) \notin {"clearFlag", "show"} => "id" \in Range(s)
           /\ op = "demand" => "syncBackup" \in Range(s)
           /\ op = "update" => "current" \in Range(s)
<1>1. Along(op, P)
  BY ProgramsFlow
<1>2. P \in Seq(Steps)
  BY <1>1 DEF Along
<1>3. PICK k \in 1..Len(P) : /\ First(s) = P[k]
                             /\ First(Tail(s)) = IF k = Len(P) THEN "end" ELSE P[k + 1]
                             /\ Range(s) = {P[j] : j \in k..Len(P)}
  BY <1>2, SuffixFlow
<1>4. Follows(op, First(s), First(Tail(s)))
  BY <1>1, <1>3 DEF Along
<1>5. First(s) \in Range(s)
  BY <1>2, <1>3
<1>6. ASSUME op = "migrate", First(s) \notin {"clearFlag", "show"} PROVE "id" \in Range(s)
  <2>1. P = <<"migrate", "native", "dropId", "rmKeychain", "rmBackup", "rmId", "clearSeed",
              "restored", "keychain", "backup", "id", "clearFlag", "show">>
    BY <1>6, Programs DEF Scripts
  <2>2. 11 \in k..Len(P) /\ P[11] = "id"
    BY <1>3, <1>6, <2>1
  <2> QED
    BY <1>3, <2>2
<1>7. ASSUME op \in {"demand", "update"} PROVE P[Len(P)] = IF op = "demand" THEN "syncBackup" ELSE "current"
  <2>1. CASE op = "demand"
    <3>1. P = LoadOnDemand \/ P = LoadBackup \/ P = RestoreBackup
      BY <2>1 DEF Scripts
    <3>2. /\ LoadOnDemand[Len(LoadOnDemand)] = "syncBackup" /\ LoadBackup[Len(LoadBackup)] = "syncBackup"
          /\ RestoreBackup[Len(RestoreBackup)] = "syncBackup"
      BY Programs
    <3> QED
      BY <2>1, <3>1, <3>2, Zenon
  <2>2. CASE op = "update"
    <3>1. P = Hydrated \/ P = UpdatePassphrase
      BY <2>2 DEF Scripts
    <3>2. Hydrated[Len(Hydrated)] = "current" /\ UpdatePassphrase[Len(UpdatePassphrase)] = "current"
      BY Programs
    <3>3. op # "demand"
      BY <2>2
    <3> QED
      BY <3>1, <3>2, <3>3, Zenon
  <2> QED
    BY <1>7, <2>1, <2>2
<1>8. P[Len(P)] \in Range(s)
  BY <1>2, <1>3
<1> QED
  BY <1>2, <1>4, <1>5, <1>6, <1>7, <1>8, SuffixFlow

-----------------------------------------------------------------------------
(***************************************************************************)
(* Taking a step moves one task to another place.                          *)
(***************************************************************************)
TaskOK ==
    /\ task \in [Actors -> Tasks]
    /\ \A u \in Actors : task[u].todo = <<>> => task[u] = Idle
    /\ booting \in BOOLEAN

Moves(u, y) ==
    /\ \A v \in Actors \ {u} : task'[v] = task[v]
    /\ Place(u)' = y
    /\ IF y = "end" THEN task'[u] = Idle
       ELSE task'[u].op = task[u].op /\ task'[u].d = task[u].d
    /\ booting' = (booting /\ ~(y = "end" /\ u = "boot"))

\* A task is at a place or idle.
LEMMA AtPlace ==
    ASSUME TaskOK, NEW u \in Actors
    PROVE  /\ \A x \in Steps : At(u, x) <=> Place(u) = x
           /\ Place(u) \in Steps \cup {"end"}
           /\ Place(u) = "end" <=> task[u] = Idle
<1>1. task[u].todo \in Seq(Steps)
  BY DEF TaskOK, Tasks
<1>2. "end" \notin Steps
  BY StepNames
<1>3. CASE task[u].todo = <<>>
  BY <1>2, <1>3 DEF TaskOK, At, Place, First, Idle
<1>4. CASE task[u].todo # <<>>
  <2>1. Head(task[u].todo) \in Steps
    BY <1>1, <1>4
  <2>2. Place(u) = Head(task[u].todo)
    BY <1>4 DEF Place, First
  <2>3. task[u] # Idle
    BY <1>4 DEF Idle
  <2> QED
    BY <1>2, <1>4, <2>1, <2>2, <2>3 DEF At
<1> QED
  BY <1>3, <1>4

\* The place of a task that is not idle is one of its operation.
LEMMA PlaceOp ==
    ASSUME TaskOK, ScriptInv, NEW u \in Actors, task[u] # Idle
    PROVE  /\ task[u].op \in Ops \ {"none"} /\ Runs(u, task[u].op)
           /\ task[u].op \notin Found => task[u].d \in Dids
           /\ \E y : Follows(task[u].op, Place(u), y)
           /\ Place(u) \in Range(task[u].todo)
           /\ task[u].op = "migrate" /\ Place(u) \notin {"clearFlag", "show"}
                 => "id" \in Range(task[u].todo)
           /\ task[u].op = "demand" => "syncBackup" \in Range(task[u].todo)
           /\ task[u].op = "update" => "current" \in Range(task[u].todo)
<1>1. Runs(u, task[u].op)
  BY DEF ScriptInv
<1>2. task[u].op \in Ops \ {"none"}
  BY <1>1 DEF Runs, Ops, Loaders
<1>3. PICK P \in Scripts(task[u].op) : task[u].todo \in Suffixes(P)
  BY DEF ScriptInv
<1> QED
  BY <1>1, <1>2, <1>3, Flow DEF Place, ScriptInv

\* A task that goes on with s moves to the first place of s.
LEMMA GoesOn ==
    ASSUME TaskOK, ScriptInv, NEW u \in Actors, task[u] # Idle, NEW s \in Seq(Steps),
           s # <<>> => \E P \in Scripts(task[u].op) : s \in Suffixes(P),
           GoOn(u, s)
    PROVE  TaskOK' /\ ScriptInv' /\ Moves(u, First(s))
<1>1. "end" \notin Steps
  BY StepNames
<1>2. \A v \in Actors \ {u} : task'[v] = task[v]
  BY DEF GoOn, TaskOK
<1>3. CASE s = <<>>
  <2>1. task'[u] = Idle /\ First(s) = "end"
    BY <1>3 DEF GoOn, TaskOK, First
  <2>2. Idle \in Tasks
    BY DEF Idle, Tasks, Ops
  <2>3. TaskOK'
    BY <1>2, <2>1, <2>2 DEF TaskOK, GoOn
  <2>4. ScriptInv'
    BY <1>2, <2>1 DEF ScriptInv
  <2>5. Place(u)' = "end"
    BY <2>1 DEF Place, First, Idle
  <2>6. booting' = (booting /\ ~(u = "boot"))
    BY <1>3 DEF GoOn
  <2> QED
    BY <1>2, <2>1, <2>3, <2>4, <2>5, <2>6 DEF Moves
<1>4. CASE s # <<>>
  <2>1. task'[u] = [task[u] EXCEPT !.todo = s]
    BY <1>4 DEF GoOn, TaskOK
  <2>2. task[u] \in Tasks
    BY DEF TaskOK
  <2>3. task'[u] \in Tasks /\ task'[u].op = task[u].op /\ task'[u].d = task[u].d /\ task'[u].todo = s
    BY <2>1, <2>2 DEF Tasks
  <2>4. First(s) # "end"
    BY <1>1, <1>4 DEF First
  <2>5. TaskOK'
    BY <1>2, <1>4, <2>3 DEF TaskOK, GoOn
  <2>6. ScriptInv'
    BY <1>2, <2>3, <1>4 DEF ScriptInv
  <2>7. booting' = (booting /\ ~(First(s) = "end" /\ u = "boot"))
    BY <1>4, <2>4 DEF GoOn
  <2> QED
    BY <1>2, <2>3, <2>4, <2>5, <2>6, <2>7 DEF Moves, Place
<1> QED
  BY <1>3, <1>4

\* A task that goes on with the rest of its steps moves along its flow.
LEMMA GoesRest ==
    ASSUME TaskOK, ScriptInv, NEW u \in Actors, task[u] # Idle, GoOn(u, Rest(u))
    PROVE  TaskOK' /\ ScriptInv' /\ \E y : Follows(task[u].op, Place(u), y) /\ Moves(u, y)
<1>1. task[u].op \in Ops \ {"none"}
  BY PlaceOp
<1>2. PICK P \in Scripts(task[u].op) : task[u].todo \in Suffixes(P)
  BY DEF ScriptInv
<1> DEFINE r == Rest(u)
<1>3. /\ r \in Seq(Steps)
      /\ r # <<>> => r \in Suffixes(P)
      /\ Follows(task[u].op, Place(u), First(r))
  BY <1>1, <1>2, Flow DEF Place, Rest
<1>4. GoOn(u, r)
  OBVIOUS
<1> HIDE DEF r
<1> QED
  BY <1>2, <1>3, <1>4, GoesOn

\* Which operations have a clearIdentity or a setCurrentIdentity ahead.
LEMMA Ahead ==
    ASSUME NEW op \in Ops \ {"none"}, NEW P \in Scripts(op), NEW s \in Suffixes(P)
    PROVE  /\ Range(s) \cap Range(Clear) # {}
                 => op \in {"boot", "signOut", "cleanup", "register", "migrate"}
           /\ op = "boot" /\ First(s) \in {"keychain", "backup", "id"}
                 => Range(s) \cap Range(Clear) = {}
           /\ "current" \in Range(s)
                 => op \in {"boot", "recover", "signIn", "seed", "claim", "rereg", "update", "demand"}
<1>1. P \in Seq(Steps)
  BY ProgramsFlow DEF Along
<1>2. PICK k \in 1..Len(P) : First(s) = P[k] /\ Range(s) = {P[j] : j \in k..Len(P)}
  BY <1>1, SuffixFlow
<1>3. \A x \in Range(s) : \E j \in 1..Len(P) : x = P[j] /\ j >= k
  BY <1>1, <1>2
<1>4. Range(Clear) = {"rmKeychain", "rmBackup", "rmId"}
  BY DEF Range, Clear
<1>5. ASSUME op = "boot", First(s) \in {"keychain", "backup", "id"}
      PROVE  Range(s) \cap Range(Clear) = {}
  <2>1. P \in {Boot, Wipe, RestoreHandles, Hydrated}
    BY <1>5 DEF Scripts
  <2>0. \/ P = Boot \/ P = Wipe \/ P = RestoreHandles
        \/ P = <<"keychain", "backup", "id", "current">>
    BY <2>1, Programs, Zenon
  <2>2. P = <<"keychain", "backup", "id", "current">>
    <3>1. CASE P = Boot
      BY <1>2, <1>5, <3>1, Programs
    <3>2. CASE P = Wipe
      BY <1>2, <1>5, <3>2, Programs
    <3>3. CASE P = RestoreHandles
      BY <1>2, <1>5, <3>3, Programs
    <3> QED
      BY <2>0, <3>1, <3>2, <3>3
  <2>3. \A j \in 1..Len(P) : P[j] \notin {"rmKeychain", "rmBackup", "rmId"}
    BY <2>2
  <2> QED
    BY <1>3, <1>4, <2>3
<1>6. ASSUME op \in {"signOut", "cleanup", "register", "migrate"} PROVE "current" \notin Range(s)
  <2>1. P \in {SignOut, ForceCleanup, RegisterAccount, Rollback, MigrateFromSeed}
    BY <1>6 DEF Scripts
  <2>2. \A j \in 1..Len(P) : P[j] # "current"
    <3>1. CASE P = SignOut
      BY <3>1, Programs
    <3>2. CASE P = ForceCleanup
      BY <3>2, Programs
    <3>3. CASE P = RegisterAccount
      BY <3>3, Programs
    <3>4. CASE P = Rollback
      BY <3>4, Programs
    <3>5. CASE P = MigrateFromSeed
      BY <3>5, Programs
    <3> QED
      BY <2>1, <3>1, <3>2, <3>3, <3>4, <3>5, Zenon
  <2> QED
    BY <1>3, <2>2
<1>7. ASSUME op \notin {"boot", "signOut", "cleanup", "register", "migrate"}
      PROVE  Range(s) \cap Range(Clear) = {}
  <2>1. P \in {RecoverIdentity, Hydrated, UpgradeLegacy, PasswordSignIn, Activate, ClaimUsername,
               LoadOnDemand, LoadBackup, RestoreBackup, UpdatePassphrase, Reregister}
    BY <1>7 DEF Scripts, Ops, Loaders
  <2>2. \A j \in 1..Len(P) : P[j] \notin {"rmKeychain", "rmBackup", "rmId"}
    <3>1. CASE P = RecoverIdentity
      BY <3>1, Programs
    <3>2. CASE P = Hydrated
      BY <3>2, Programs
    <3>3. CASE P = UpgradeLegacy
      BY <3>3, Programs
    <3>4. CASE P = Activate
      BY <3>4, Programs
    <3>5. CASE P = ClaimUsername
      BY <3>5, Programs
    <3>6. CASE P = LoadBackup
      BY <3>6, Programs
    <3>10. CASE P = RestoreBackup
      BY <3>10, Programs
    <3>7. CASE P = LoadOnDemand
      BY <3>7, Programs
    <3>8. CASE P = PasswordSignIn
      BY <3>8, Programs
    <3>9. CASE P = UpdatePassphrase
      BY <3>9, Programs
    <3>11. CASE P = Reregister
      BY <3>11, Programs
    <3> QED
      BY <2>1, <3>1, <3>2, <3>3, <3>4, <3>5, <3>6, <3>7, <3>8, <3>9, <3>10, <3>11, Zenon
  <2> QED
    BY <1>3, <1>4, <2>2
<1> QED
  BY <1>5, <1>6, <1>7 DEF Ops, Loaders

\* The rests that a failure, a fetched record or a malformed identity leaves.
LEMMA Branches ==
    /\ \A op \in {"boot", "recover", "signIn", "seed", "rereg"} : Hydrated \in Scripts(op)
    /\ \A op \in {"boot", "recover", "signIn", "seed", "rereg", "claim"} :
          \E P \in Scripts(op) : <<"current">> \in Suffixes(P)
    /\ \A op \in {"boot", "cleanup"} : \E P \in Scripts(op) : <<"noCurrent">> \in Suffixes(P)
    /\ \E P \in Scripts("register") : <<"rmWallet">> \in Suffixes(P)
    /\ \E P \in Scripts("register") : Rollback \in Suffixes(P)
    /\ \E P \in Scripts("migrate") : Migrating \in Suffixes(P)
    /\ \E P \in Scripts("migrate") : Migrated \in Suffixes(P)
    /\ \E P \in Scripts("demand") : <<"current", "syncBackup">> \in Suffixes(P)
    /\ \E P \in Scripts("demand") : LoadBackup \in Suffixes(P)
    /\ \E P \in Scripts("demand") : RestoreBackup \in Suffixes(P)
    /\ \E P \in Scripts("boot") : Wipe \in Suffixes(P)
    /\ \E P \in Scripts("boot") : Clear \o <<"noCurrent">> \in Suffixes(P)
    /\ \E P \in Scripts("boot") : RestoreHandles \in Suffixes(P)
    /\ \A op \in {"boot", "recover", "signIn", "seed", "rereg"} :
          \E P \in Scripts(op) : Hydrated \in Suffixes(P)
    /\ Clear \o <<"noCurrent">> = <<"rmKeychain", "rmBackup", "rmId", "noCurrent">>
<1>1. ASSUME NEW P \in Seq(Steps), P # <<>> PROVE P \in Suffixes(P)
  <2>1. SubSeq(P, 1, Len(P)) = P /\ 1 \in 1..Len(P)
    BY <1>1
  <2> QED
    BY <2>1 DEF Suffixes
<1>2. ASSUME NEW P \in Seq(Steps), P # <<>> PROVE <<P[Len(P)]>> \in Suffixes(P)
  <2> DEFINE w == SubSeq(P, Len(P), Len(P))
  <2>1. Len(P) \in 1..Len(P) /\ w \in Seq(Steps) /\ Len(w) = 1 /\ w[1] = P[Len(P)]
    BY <1>2
  <2>2. w = <<P[Len(P)]>>
    <3> HIDE DEF w
    <3> QED
      BY <2>1
  <2> QED
    BY <2>1, <2>2 DEF Suffixes
<1>3. /\ Hydrated \in Seq(Steps) /\ Hydrated # <<>> /\ Hydrated[Len(Hydrated)] = "current"
      /\ ClaimUsername \in Seq(Steps) /\ ClaimUsername # <<>> /\ ClaimUsername[Len(ClaimUsername)] = "current"
      /\ Wipe \in Seq(Steps) /\ Wipe # <<>> /\ Wipe[Len(Wipe)] = "noCurrent"
      /\ ForceCleanup \in Seq(Steps) /\ ForceCleanup # <<>> /\ ForceCleanup[Len(ForceCleanup)] = "noCurrent"
      /\ Rollback \in Seq(Steps) /\ Rollback # <<>> /\ Rollback[Len(Rollback)] = "rmWallet"
      /\ RestoreHandles \in Seq(Steps) /\ RestoreHandles # <<>>
      /\ LoadBackup \in Seq(Steps) /\ LoadBackup # <<>>
      /\ RestoreBackup \in Seq(Steps) /\ RestoreBackup # <<>>
  BY Programs, StepNames
<1>4. Clear \o <<"noCurrent">> = <<"rmKeychain", "rmBackup", "rmId", "noCurrent">>
  <2> DEFINE c == Clear \o <<"noCurrent">>
  <2>1. c \in Seq(Steps) /\ Len(c) = 4
    BY StepNames DEF Clear
  <2>2. c[1] = "rmKeychain" /\ c[2] = "rmBackup" /\ c[3] = "rmId" /\ c[4] = "noCurrent"
    BY <2>1, StepNames DEF Clear
  <2> HIDE DEF c
  <2>3. c = <<"rmKeychain", "rmBackup", "rmId", "noCurrent">>
    BY <2>1, <2>2
  <2> QED
    BY <2>3 DEF c
<1>9. ASSUME NEW P \in Seq(Steps), NEW k \in 1..Len(P), NEW q \in Seq(Steps), Len(q) = Len(P) - k + 1,
             \A j \in 1..Len(q) : q[j] = P[k + j - 1]
      PROVE  q \in Suffixes(P)
  <2> DEFINE w == SubSeq(P, k, Len(P))
  <2>1. w \in Seq(Steps) /\ Len(w) = Len(P) - k + 1 /\ \A j \in 1..Len(w) : w[j] = P[k + j - 1]
    OBVIOUS
  <2>2. w = q
    <3> HIDE DEF w
    <3> QED
      BY <1>9, <2>1, SeqEqual
  <2> QED
    BY <2>2 DEF Suffixes
<1>5. <<"rmKeychain", "rmBackup", "rmId", "noCurrent">> \in Suffixes(Wipe)
  <2> DEFINE q == <<"rmKeychain", "rmBackup", "rmId", "noCurrent">>
  <2>1. Wipe \in Seq(Steps) /\ Len(Wipe) = 6 /\ q \in Seq(Steps) /\ Len(q) = 4
    BY Programs, StepNames
  <2>2. \A j \in 1..4 : q[j] = Wipe[3 + j - 1]
    BY Programs
  <2> HIDE DEF q
  <2>4. 3 \in 1..Len(Wipe) /\ Len(q) = Len(Wipe) - 3 + 1 /\ \A j \in 1..Len(q) : q[j] = Wipe[3 + j - 1]
    BY <2>1, <2>2
  <2>3. q \in Suffixes(Wipe)
    BY <1>9, <2>1, <2>4, Zenon
  <2> QED
    BY <2>3 DEF q
<1>10. Migrating \in Suffixes(MigrateFromSeed) /\ Migrated \in Suffixes(MigrateFromSeed)
  <2>1. /\ MigrateFromSeed \in Seq(Steps) /\ Len(MigrateFromSeed) = 13
        /\ Migrating \in Seq(Steps) /\ Len(Migrating) = 7
        /\ Migrated \in Seq(Steps) /\ Len(Migrated) = 6
    BY Programs, StepNames
  <2>2. \A j \in 1..7 : Migrating[j] = MigrateFromSeed[7 + j - 1]
    BY Programs
  <2>3. \A j \in 1..6 : Migrated[j] = MigrateFromSeed[8 + j - 1]
    BY Programs
  <2>4. Migrating \in Suffixes(MigrateFromSeed)
    <3>1. /\ 7 \in 1..Len(MigrateFromSeed) /\ Len(Migrating) = Len(MigrateFromSeed) - 7 + 1
          /\ \A j \in 1..Len(Migrating) : Migrating[j] = MigrateFromSeed[7 + j - 1]
      BY <2>1, <2>2
    <3> QED
      BY <1>9, <2>1, <3>1, Zenon
  <2>5. Migrated \in Suffixes(MigrateFromSeed)
    <3>1. /\ 8 \in 1..Len(MigrateFromSeed) /\ Len(Migrated) = Len(MigrateFromSeed) - 8 + 1
          /\ \A j \in 1..Len(Migrated) : Migrated[j] = MigrateFromSeed[8 + j - 1]
      BY <2>1, <2>3
    <3> QED
      BY <1>9, <2>1, <3>1, Zenon
  <2> QED
    BY <2>4, <2>5
<1>11. <<"current", "syncBackup">> \in Suffixes(LoadOnDemand)
  <2> DEFINE q == <<"current", "syncBackup">>
  <2>1. LoadOnDemand \in Seq(Steps) /\ Len(LoadOnDemand) = 3 /\ q \in Seq(Steps) /\ Len(q) = 2
    BY Programs, StepNames
  <2>2. \A j \in 1..2 : q[j] = LoadOnDemand[2 + j - 1]
    BY Programs
  <2> HIDE DEF q
  <2>4. 2 \in 1..Len(LoadOnDemand) /\ Len(q) = Len(LoadOnDemand) - 2 + 1 /\ \A j \in 1..Len(q) : q[j] = LoadOnDemand[2 + j - 1]
    BY <2>1, <2>2
  <2>3. q \in Suffixes(LoadOnDemand)
    BY <1>9, <2>1, <2>4, Zenon
  <2> QED
    BY <2>3 DEF q
<1>6. /\ \A op \in {"boot", "recover", "signIn", "seed", "rereg"} : Hydrated \in Scripts(op)
      /\ ClaimUsername \in Scripts("claim") /\ ForceCleanup \in Scripts("cleanup")
      /\ Rollback \in Scripts("register") /\ MigrateFromSeed \in Scripts("migrate")
      /\ {LoadOnDemand, LoadBackup, RestoreBackup} \subseteq Scripts("demand")
      /\ Wipe \in Scripts("boot") /\ RestoreHandles \in Scripts("boot")
  BY DEF Scripts
<1>7. /\ Hydrated \in Suffixes(Hydrated) /\ Wipe \in Suffixes(Wipe) /\ Rollback \in Suffixes(Rollback)
      /\ RestoreHandles \in Suffixes(RestoreHandles)
      /\ LoadBackup \in Suffixes(LoadBackup) /\ RestoreBackup \in Suffixes(RestoreBackup)
  BY <1>1, <1>3, Zenon
<1>8. /\ <<"current">> \in Suffixes(Hydrated) /\ <<"current">> \in Suffixes(ClaimUsername)
      /\ <<"noCurrent">> \in Suffixes(Wipe) /\ <<"noCurrent">> \in Suffixes(ForceCleanup)
      /\ <<"rmWallet">> \in Suffixes(Rollback)
  <2>1. <<"current">> \in Suffixes(Hydrated)
    BY <1>2, <1>3, Zenon
  <2>2. <<"current">> \in Suffixes(ClaimUsername)
    BY <1>2, <1>3, Zenon
  <2>3. <<"noCurrent">> \in Suffixes(Wipe)
    BY <1>2, <1>3, Zenon
  <2>4. <<"noCurrent">> \in Suffixes(ForceCleanup)
    BY <1>2, <1>3, Zenon
  <2>5. <<"rmWallet">> \in Suffixes(Rollback)
    BY <1>2, <1>3, Zenon
  <2> QED
    BY <2>1, <2>2, <2>3, <2>4, <2>5
<1> QED
  BY <1>4, <1>5, <1>6, <1>7, <1>8, <1>10, <1>11

-----------------------------------------------------------------------------
(***************************************************************************)
(* Where the actions move their task.                                      *)
(***************************************************************************)
Walks(u) ==
    \/ WriteStore(u) \/ ClearStore(u) \/ SetCurrent(u) \/ ClearCurrent(u)
    \/ CleanNative(u) \/ SetFlag(u) \/ Answered(u) \/ LobbyChanges(u) \/ Bind(u)
    \/ RemoveWallet(u) \/ ShowSeed(u)

\* Steps that succeed go on along the flow.
LEMMA WalkMoves ==
    ASSUME TaskOK, ScriptInv, NEW u \in Actors, Walks(u)
    PROVE  /\ TaskOK' /\ ScriptInv' /\ task[u] # Idle
           /\ \E y : Follows(task[u].op, Place(u), y) /\ Moves(u, y)
<1>1. GoOn(u, Rest(u)) \/ (At(u, "migrate") /\ GoOn(u, Migrated))
  BY DEF Walks, WriteStore, ClearStore, SetCurrent, ClearCurrent, CleanNative, SetFlag, Answered,
         LobbyChanges, Bind, RemoveWallet, ShowSeed
<1>2. \E x \in Steps : At(u, x)
  BY StepNames
     DEF Walks, WriteStore, ClearStore, SetCurrent, ClearCurrent, CleanNative, SetFlag, Answered, Calls,
         LobbyChanges, Bind, RemoveWallet, ShowSeed
<1>3. task[u] # Idle
  BY <1>2, StepNames, AtPlace
<1>4. CASE GoOn(u, Rest(u))
  BY <1>3, <1>4, GoesRest
<1>5. CASE At(u, "migrate") /\ GoOn(u, Migrated)
  <2>1. Place(u) = "migrate"
    BY <1>5, AtPlace, StepNames
  <2>2. task[u].op = "migrate"
    <3>1. \E y : Follows(task[u].op, Place(u), y)
      BY <1>3, PlaceOp
    <3> QED
      BY <2>1, <3>1 DEF Follows, StoreFlow, ClearFlow
  <2>3. Migrated \in Seq(Steps) /\ First(Migrated) = "restored"
    BY Programs, StepNames DEF First
  <2>4. Follows(task[u].op, Place(u), First(Migrated))
    BY <2>1, <2>2, <2>3 DEF Follows
  <2>5. \E P \in Scripts(task[u].op) : Migrated \in Suffixes(P)
    BY <2>2, Branches
  <2>6. TaskOK' /\ ScriptInv' /\ Moves(u, First(Migrated))
    BY <1>3, <1>5, <2>3, <2>5, GoesOn
  <2> QED
    BY <1>3, <2>4, <2>6
<1> QED
  BY <1>1, <1>4, <1>5

\* A storage call that throws leaves at most the rest that still runs.
LEMMA StoreThrowsMoves ==
    ASSUME TaskOK, ScriptInv, NEW u \in Actors, StoreThrows(u)
    PROVE  /\ TaskOK' /\ ScriptInv' /\ task[u] # Idle
           /\ Place(u) \in StoreSteps
           /\ \E y : /\ Moves(u, y)
                     /\ u = "boot" /\ Place(u) \in {"dropId", "rmKeychain", "rmBackup", "rmId"}
                          => y \in {"end", "noCurrent"}
                     /\ u = "boot" /\ Place(u) \in {"keychain", "backup", "id"}
                          => y \in {"end", "current"}
<1> DEFINE s == IF At(u, "dropId") THEN <<>>
                ELSE IF Doing(u, Range(Clear)) THEN AfterClear(u)
                ELSE AfterStore(u)
<1>1. GoOn(u, s)
  BY DEF StoreThrows
<1>2. \A x \in StoreSteps : x \in Steps
  BY DEF Steps, IdentitySteps
<1>3. Place(u) \in StoreSteps /\ task[u] # Idle
  <2>1. PICK x \in StoreSteps : At(u, x)
    BY DEF StoreThrows
  <2> QED
    BY <1>2, <2>1, AtPlace, StepNames
<1>4. /\ task[u].op \in Ops \ {"none"} /\ Runs(u, task[u].op) /\ Place(u) \in Range(task[u].todo)
      /\ \E y : Follows(task[u].op, Place(u), y)
  BY <1>3, PlaceOp
<1>5. PICK P \in Scripts(task[u].op) : task[u].todo \in Suffixes(P)
  BY <1>3 DEF ScriptInv
<1>6. /\ Range(task[u].todo) \cap Range(Clear) # {}
            => task[u].op \in {"boot", "signOut", "cleanup", "register", "migrate"}
      /\ task[u].op = "boot" /\ Place(u) \in {"keychain", "backup", "id"}
            => Range(task[u].todo) \cap Range(Clear) = {}
      /\ "current" \in Range(task[u].todo)
            => task[u].op \in {"boot", "recover", "signIn", "seed", "claim", "rereg", "update", "demand"}
  BY <1>4, <1>5, Ahead DEF Place
<1>7. StoreSteps = {"keychain", "backup", "id", "rmKeychain", "rmBackup", "rmId", "dropId", "syncBackup"}
  BY DEF StoreSteps, Store, Clear, Range
<1>8. Range(Clear) = {"rmKeychain", "rmBackup", "rmId"}
  BY DEF Range, Clear
<1>9. At(u, "dropId") <=> Place(u) = "dropId"
  BY AtPlace, StepNames
<1>10. /\ s \in Seq(Steps)
       /\ s # <<>> => \E Q \in Scripts(task[u].op) : s \in Suffixes(Q)
       /\ u = "boot" /\ Place(u) \in {"dropId", "rmKeychain", "rmBackup", "rmId"}
            => First(s) \in {"end", "noCurrent"}
       /\ u = "boot" /\ Place(u) \in {"keychain", "backup", "id"} => First(s) \in {"end", "current"}
  <2>0. <<>> \in Seq(Steps) /\ First(<<>>) = "end"
    BY DEF First
  <2>1. CASE At(u, "dropId")
    BY <1>9, <2>0, <2>1
  <2>2. CASE ~At(u, "dropId") /\ Doing(u, Range(Clear))
    <3>1. s = AfterClear(u)
      BY <2>2
    <3>2. Range(task[u].todo) \cap Range(Clear) # {}
      BY <2>2 DEF Doing
    <3>3. CASE task[u].op = "signOut"
      <4>1. s = <<>> /\ u # "boot"
        BY <1>4, <3>1, <3>3 DEF AfterClear, Runs
      <4> QED
        BY <2>0, <4>1
    <3>4. CASE task[u].op = "register"
      <4>1. s = <<"rmWallet">> /\ u # "boot"
        BY <1>4, <3>1, <3>4 DEF AfterClear, Runs
      <4>2. <<"rmWallet">> \in Seq(Steps)
        BY StepNames
      <4> HIDE DEF s
      <4> QED
        BY <3>4, <4>1, <4>2, Branches
    <3>5. CASE task[u].op \in {"boot", "cleanup"}
      <4>1. s = <<"noCurrent">>
        BY <3>1, <3>5 DEF AfterClear
      <4>2. <<"noCurrent">> \in Seq(Steps) /\ First(<<"noCurrent">>) = "noCurrent"
        BY StepNames DEF First
      <4>3. u = "boot" => task[u].op = "boot"
        BY <1>4 DEF Runs
      <4>4. u = "boot" => Place(u) \notin {"keychain", "backup", "id"}
        BY <1>6, <3>2, <4>3
      <4> HIDE DEF s
      <4> QED
        BY <3>5, <4>1, <4>2, <4>4, Branches
    <3>6. CASE task[u].op = "migrate"
      <4>1. s = Migrating /\ u # "boot"
        BY <1>4, <3>1, <3>6 DEF AfterClear, Runs
      <4>2. Migrating \in Seq(Steps)
        BY Programs, StepNames
      <4> HIDE DEF s
      <4> QED
        BY <3>6, <4>1, <4>2, Branches
    <3> QED
      BY <1>6, <3>2, <3>3, <3>4, <3>5, <3>6
  <2>3. CASE ~At(u, "dropId") /\ ~Doing(u, Range(Clear))
    <3>0. s = AfterStore(u)
      BY <2>3
    <3>1. Place(u) \notin {"dropId", "rmKeychain", "rmBackup", "rmId"}
      BY <1>4, <1>8, <1>9, <2>3 DEF Doing
    <3> HIDE DEF s
    <3>2. CASE task[u].op = "register"
      <4>1. s = Rollback /\ u # "boot"
        BY <1>4, <3>0, <3>2 DEF Runs, AfterStore
      <4>2. Rollback \in Seq(Steps)
        BY Programs, StepNames
      <4> QED
        BY <3>2, <4>1, <4>2, Branches
    <3>3. CASE task[u].op \notin {"register", "demand", "update"} /\ Doing(u, {"current"})
      <4>1. s = <<"current">> \/ s = <<>>
        BY <3>0, <3>3 DEF AfterStore
      <4>2. <<"current">> \in Seq(Steps) /\ First(<<"current">>) = "current"
        BY StepNames DEF First
      <4>3. "current" \in Range(task[u].todo)
        BY <3>3 DEF Doing
      <4>4. task[u].op \in {"boot", "recover", "signIn", "seed", "rereg", "claim"}
        BY <1>6, <3>3, <4>3
      <4>5. CASE s = <<"current">>
        <5>1. \E Q \in Scripts(task[u].op) : <<"current">> \in Suffixes(Q)
          BY <4>4, Branches
        <5> QED
          BY <3>1, <4>2, <4>5, <5>1
      <4>6. CASE s = <<>>
        BY <2>0, <4>6
      <4> QED
        BY <4>1, <4>5, <4>6
    <3>4. CASE task[u].op = "demand" /\ Doing(u, {"current"})
      <4>1. s = <<"current", "syncBackup">> /\ u # "boot"
        BY <1>4, <3>0, <3>4 DEF AfterStore, Runs
      <4>2. <<"current", "syncBackup">> \in Seq(Steps)
        BY StepNames
      <4>3. \E Q \in Scripts("demand") : <<"current", "syncBackup">> \in Suffixes(Q)
        BY Branches
      <4> QED
        BY <3>4, <4>1, <4>2, <4>3
    <3>5. CASE task[u].op \in {"demand", "update"} /\ ~(task[u].op = "demand" /\ Doing(u, {"current"}))
      <4>1. s = <<>>
        BY <3>0, <3>5 DEF AfterStore
      <4> QED
        BY <2>0, <4>1
    <3>6. CASE task[u].op \notin {"register", "demand", "update"} /\ ~Doing(u, {"current"})
      <4>1. s = <<>>
        BY <3>0, <3>6 DEF AfterStore
      <4> QED
        BY <2>0, <4>1
    <3> QED
      BY <3>2, <3>3, <3>4, <3>5, <3>6
  <2> QED
    BY <2>1, <2>2, <2>3
<1> HIDE DEF s
<1> QED
  BY <1>1, <1>3, <1>10, GoesOn

\* A refused call ends the operation; a registration rolls back, and a
\* migration goes on without the wallet.
AfterRefusal(u) ==
    IF Place(u) = "restored" THEN "keychain"
    ELSE IF task[u].op = "register" /\ Place(u) \notin {"begin", "create"} THEN "unbind" ELSE "end"

LEMMA RefusedMoves ==
    ASSUME TaskOK, ScriptInv, NEW u \in Actors, Refused(u)
    PROVE  /\ TaskOK' /\ ScriptInv' /\ task[u] # Idle
           /\ Place(u) \in Calls \cup {"saveLobby"}
           /\ Moves(u, AfterRefusal(u))
<1> DEFINE X == Calls \cup {"saveLobby"}
<1>0. X \subseteq Steps
  BY StepNames DEF Calls
<1>1. \A x \in X : At(u, x) <=> Place(u) = x
  BY <1>0, AtPlace
<1>2. Place(u) \in X
  BY <1>1 DEF Refused
<1>3. task[u] # Idle
  BY <1>0, <1>2, AtPlace, StepNames
<1>4. Runs(u, task[u].op) /\ task[u].op # "none" /\ \E y : Follows(task[u].op, Place(u), y)
  BY <1>3, PlaceOp
<1>7. {"begin", "create", "recover", "restored"} \subseteq X
  BY DEF Calls
<1> HIDE DEF X
<1>5. CASE At(u, "begin")
  <2>1. Place(u) = "begin"
    BY <1>1, <1>5, <1>7
  <2>2. task' = [task EXCEPT ![u] = Idle] /\ booting' = booting
    BY <1>5, <2>1 DEF Refused, At
  <2>3. task[u].op = "register"
    BY <1>4, <2>1 DEF Follows, StoreFlow, ClearFlow
  <2>4. u # "boot"
    BY <1>4, <2>3 DEF Runs
  <2>5. task'[u] = Idle /\ \A v \in Actors \ {u} : task'[v] = task[v]
    BY <2>2 DEF TaskOK
  <2>6. TaskOK'
    <3>1. Idle \in Tasks
      BY DEF Idle, Tasks, Ops
    <3> QED
      BY <2>2, <2>5, <3>1 DEF TaskOK
  <2>7. ScriptInv'
    BY <2>5 DEF ScriptInv
  <2>8. Place(u)' = "end"
    BY <2>5 DEF Place, First, Idle
  <2>9. Moves(u, "end")
    BY <2>2, <2>4, <2>5, <2>8 DEF Moves, TaskOK
  <2> QED
    BY <1>2, <1>3, <2>1, <2>6, <2>7, <2>9 DEF X, AfterRefusal
<1>6. CASE ~At(u, "begin")
  <2> DEFINE s == IF At(u, "restored") THEN Rest(u)
                  ELSE IF task[u].op = "register" /\ ~At(u, "create") THEN Rollback ELSE <<>>
  <2>1. Place(u) # "begin"
    BY <1>1, <1>6, <1>7
  <2>2. Place(u) = "recover" => task[u].op # "register"
    BY <1>4 DEF Follows, StoreFlow, ClearFlow
  <2>3. GoOn(u, s)
    <3>1. CASE At(u, "recover")
      <4>1. GoOn(u, <<>>)
        BY <1>6, <3>1 DEF Refused
      <4>2. ~At(u, "restored")
        BY <3>1 DEF At
      <4> QED
        BY <1>1, <1>7, <2>2, <3>1, <4>1, <4>2
    <3>2. CASE ~At(u, "recover")
      BY <1>6, <3>2 DEF Refused
    <3> QED
      BY <3>1, <3>2
  <2>4. CASE At(u, "restored")
    <3>1. GoOn(u, Rest(u))
      BY <2>3, <2>4
    <3>2. PICK y : TaskOK' /\ ScriptInv' /\ Follows(task[u].op, Place(u), y) /\ Moves(u, y)
      BY <1>3, <3>1, GoesRest
    <3>3. Place(u) = "restored"
      BY <1>1, <1>7, <2>4
    <3>4. y = "keychain"
      BY <3>2, <3>3 DEF Follows, StoreFlow, ClearFlow
    <3> QED
      BY <1>2, <1>3, <3>2, <3>3, <3>4 DEF X, AfterRefusal
  <2>5. CASE ~At(u, "restored")
    <3>0. Place(u) # "restored"
      BY <1>1, <1>7, <2>5
    <3>1. /\ s \in Seq(Steps)
          /\ s # <<>> => \E P \in Scripts(task[u].op) : s \in Suffixes(P)
          /\ First(s) = AfterRefusal(u)
      <4>1. CASE task[u].op = "register" /\ ~At(u, "create")
        <5>1. Rollback \in Seq(Steps) /\ First(Rollback) = "unbind"
          BY Programs, StepNames DEF First
        <5>2. s = Rollback
          BY <2>5, <4>1
        <5>3. Place(u) # "create"
          BY <1>1, <1>7, <4>1
        <5> HIDE DEF s
        <5> QED
          BY <2>1, <3>0, <4>1, <5>1, <5>2, <5>3, Branches DEF AfterRefusal
      <4>2. CASE ~(task[u].op = "register" /\ ~At(u, "create"))
        <5>1. s = <<>>
          BY <2>5, <4>2
        <5>2. First(<<>>) = "end" /\ <<>> \in Seq(Steps)
          BY DEF First
        <5> HIDE DEF s
        <5> QED
          BY <1>1, <1>7, <3>0, <4>2, <5>1, <5>2 DEF AfterRefusal
      <4> QED
        BY <4>1, <4>2
    <3> HIDE DEF s
    <3> QED
      BY <1>2, <1>3, <2>3, <3>1, GoesOn DEF X
  <2> QED
    BY <2>4, <2>5
<1> QED
  BY <1>5, <1>6

\* A clean-up whose native call throws ends.
LEMMA CleanThrowsMoves ==
    ASSUME TaskOK, ScriptInv, NEW u \in Actors, CleanThrows(u)
    PROVE  TaskOK' /\ ScriptInv' /\ task[u] # Idle /\ Moves(u, "end")
<1>1. task[u] # Idle
  BY AtPlace, StepNames DEF CleanThrows
<1>2. GoOn(u, <<>>)
  BY DEF CleanThrows
<1>3. <<>> \in Seq(Steps) /\ First(<<>>) = "end"
  BY DEF First
<1> QED
  BY <1>1, <1>2, <1>3, GoesOn

\* A fetched record ends the operation or is saved.
LEMMA FetchMoves ==
    ASSUME TaskOK, ScriptInv, NEW u \in Actors, NEW changed \in BOOLEAN, Fetch(u, changed)
    PROVE  /\ TaskOK' /\ ScriptInv' /\ task[u] # Idle /\ Place(u) = "fetch"
           /\ task[u].op \in {"boot", "recover", "signIn", "seed", "rereg"}
           /\ \E y \in {"keychain", "end"} : Moves(u, y)
<1> DEFINE s == IF changed THEN Hydrated ELSE <<>>
<1>1. Place(u) = "fetch" /\ task[u] # Idle
  BY AtPlace, StepNames DEF Fetch
<1>2. \E y : Follows(task[u].op, "fetch", y)
  BY <1>1, PlaceOp
<1>3. task[u].op \in {"boot", "recover", "signIn", "seed", "rereg"}
  BY <1>2 DEF Follows, StoreFlow, ClearFlow
<1>4. GoOn(u, s)
  BY DEF Fetch
<1>5. /\ s \in Seq(Steps) /\ First(s) \in {"keychain", "end"}
      /\ s # <<>> => \E P \in Scripts(task[u].op) : s \in Suffixes(P)
  <2>1. CASE changed
    <3>1. Hydrated \in Seq(Steps) /\ First(Hydrated) = "keychain"
      BY Programs, StepNames DEF First
    <3> QED
      BY <1>3, <2>1, <3>1, Branches
  <2>2. CASE ~changed
    BY <2>2 DEF First
  <2> QED
    BY <2>1, <2>2
<1> HIDE DEF s
<1> QED
  BY <1>1, <1>3, <1>4, <1>5, GoesOn

\* The bootstrap goes on, or wipes the device.
LEMMA ReadFlagMoves ==
    ASSUME TaskOK, ScriptInv, ReadFlag \/ LoadLobby
    PROVE  /\ TaskOK' /\ ScriptInv' /\ task["boot"] # Idle
           /\ \/ Place("boot") = "readFlag" /\ \E y \in {"loadLobby", "native"} : Moves("boot", y)
              \/ Place("boot") = "loadLobby" /\ Moves("boot", "readBackup")
<1>0. "boot" \in Actors
  BY DEF Actors
<1>1. \/ Place("boot") = "readFlag" /\ ReadFlag
      \/ Place("boot") = "loadLobby" /\ LoadLobby
  BY <1>0, AtPlace, StepNames DEF ReadFlag, LoadLobby
<1>2. task["boot"] # Idle
  BY <1>0, <1>1, AtPlace
<1>3. task["boot"].op = "boot"
  BY <1>0, <1>2, PlaceOp DEF Runs
<1>4. CASE GoOn("boot", Rest("boot"))
  <2>1. TaskOK' /\ ScriptInv'
    BY <1>0, <1>2, <1>4, GoesRest
  <2>2. PICK y : Follows("boot", Place("boot"), y) /\ Moves("boot", y)
    BY <1>0, <1>2, <1>3, <1>4, GoesRest
  <2>3. /\ Place("boot") = "readFlag" => y = "loadLobby"
        /\ Place("boot") = "loadLobby" => y = "readBackup"
    BY <2>2 DEF Follows, StoreFlow, ClearFlow
  <2> QED
    BY <1>1, <1>2, <2>1, <2>2, <2>3
<1>5. CASE ~GoOn("boot", Rest("boot"))
  <2>1. Place("boot") = "readFlag" /\ GoOn("boot", Wipe)
    BY <1>1, <1>5 DEF ReadFlag, LoadLobby, Wipe
  <2>2. Wipe \in Seq(Steps) /\ First(Wipe) = "native"
    BY Programs, StepNames DEF First
  <2> QED
    BY <1>0, <1>2, <1>3, <2>1, <2>2, Branches, GoesOn
<1> QED
  BY <1>4, <1>5

LEMMA TasksOK == ASSUME TypeOK PROVE TaskOK
BY DEF TypeOK, TaskOK

\* A task that takes up t goes to the first place of t; one that stops is idle.
LEMMA Takes ==
    ASSUME TaskOK, ScriptInv, NEW u \in Actors, NEW t \in Tasks, t.todo # <<>>, Runs(u, t.op),
           t.op \notin Found => t.d \in Dids, \E P \in Scripts(t.op) : t.todo \in Suffixes(P),
           task' = [task EXCEPT ![u] = t], booting' \in BOOLEAN
    PROVE  /\ TaskOK' /\ ScriptInv' /\ \A v \in Actors \ {u} : task'[v] = task[v]
           /\ task'[u] = t /\ Place(u)' = First(t.todo)
<1>1. task'[u] = t /\ \A v \in Actors \ {u} : task'[v] = task[v]
  BY DEF TaskOK
<1>2. TaskOK'
  BY <1>1 DEF TaskOK
<1>3. ScriptInv'
  BY <1>1 DEF ScriptInv
<1> QED
  BY <1>1, <1>2, <1>3 DEF Place

LEMMA WithBoth ==
    ASSUME NEW t \in Tasks, NEW d, NEW s
    PROVE  [t EXCEPT !.d = d, !.todo = s] = [op |-> t.op, d |-> d, todo |-> s]
<1>1. PICK x : x = [t EXCEPT !.d = d, !.todo = s]
  OBVIOUS
<1>2. x = [op |-> t.op, d |-> d, todo |-> s]
  BY <1>1 DEF Tasks
<1> QED
  BY <1>1, <1>2

LEMMA Stops ==
    ASSUME TaskOK, ScriptInv, NEW u \in Actors, task' = [task EXCEPT ![u] = Idle], booting' \in BOOLEAN
    PROVE  /\ TaskOK' /\ ScriptInv' /\ \A v \in Actors \ {u} : task'[v] = task[v]
           /\ task'[u] = Idle /\ Place(u)' = "end"
<1>1. task'[u] = Idle /\ \A v \in Actors \ {u} : task'[v] = task[v]
  BY DEF TaskOK
<1>2. Idle \in Tasks
  BY DEF Idle, Tasks, Ops
<1>3. TaskOK'
  BY <1>1, <1>2 DEF TaskOK
<1>4. ScriptInv'
  BY <1>1 DEF ScriptInv
<1> QED
  BY <1>1, <1>3, <1>4 DEF Place, First, Idle

\* Where a load on demand or the bootstrap looks for an identity.
LEMMA Looks ==
    ASSUME TypeOK, ScriptInv, NEW u \in Actors, NEW x \in {"readKeychain", "fallback", "readBackup", "handle"},
           At(u, x)
    PROVE  /\ TaskOK /\ Place(u) = x /\ task[u] # Idle /\ task[u] \in Tasks
           /\ IF x \in {"readKeychain", "fallback"} THEN u = "screen" /\ task[u].op = "demand"
              ELSE u = "boot" /\ task[u].op = "boot"
           /\ Rest(u) \in Seq(Steps) /\ Follows(task[u].op, x, First(Rest(u)))
           /\ Rest(u) # <<>> => \E P \in Scripts(task[u].op) : Rest(u) \in Suffixes(P)
           /\ Runs(u, task[u].op)
<1>0. TaskOK
  BY TasksOK
<1>1. Place(u) = x /\ task[u] # Idle /\ task[u] \in Tasks
  BY <1>0, AtPlace, StepNames DEF TaskOK
<1>2. /\ task[u].op \in Ops \ {"none"} /\ Runs(u, task[u].op)
      /\ \E y : Follows(task[u].op, x, y)
  BY <1>0, <1>1, PlaceOp
<1>3. IF x \in {"readKeychain", "fallback"} THEN u = "screen" /\ task[u].op = "demand"
      ELSE u = "boot" /\ task[u].op = "boot"
  BY <1>2 DEF Follows, StoreFlow, ClearFlow, Runs
<1>4. PICK P \in Scripts(task[u].op) : task[u].todo \in Suffixes(P)
  BY <1>1 DEF ScriptInv
<1>5. /\ Rest(u) \in Seq(Steps)
      /\ Rest(u) # <<>> => Rest(u) \in Suffixes(P)
      /\ Follows(task[u].op, x, First(Rest(u)))
  BY <1>1, <1>2, <1>4, Flow DEF Place, Rest
<1> QED
  BY <1>0, <1>1, <1>2, <1>3, <1>4, <1>5

\* An on-demand load goes on with the identity of the keychain, or turns to
\* the backup.
LEMMA ReadKeychainMoves ==
    ASSUME TypeOK, ScriptInv, NEW u \in Actors, ReadKeychain(u)
    PROVE  /\ TaskOK' /\ ScriptInv' /\ task[u] # Idle /\ booting' = booting
           /\ u = "screen" /\ task[u].op = "demand" /\ Place(u) = "readKeychain"
           /\ \A v \in Actors \ {u} : task'[v] = task[v]
           /\ \/ task'[u] = Idle /\ Place(u)' = "end"
              \/ /\ task'[u].op = "demand" /\ Place(u)' = "current"
                 /\ keychain # None /\ task'[u].d = keychain
              \/ /\ task'[u].op = "demand" /\ Place(u)' = "fallback" /\ task'[u].d = task[u].d
<1>1. At(u, "readKeychain") /\ booting' = booting
  BY DEF ReadKeychain
<1>2. /\ TaskOK /\ Place(u) = "readKeychain" /\ task[u] # Idle /\ task[u] \in Tasks
      /\ u = "screen" /\ task[u].op = "demand"
      /\ Rest(u) \in Seq(Steps) /\ Follows("demand", "readKeychain", First(Rest(u)))
      /\ Rest(u) # <<>> => \E P \in Scripts(task[u].op) : Rest(u) \in Suffixes(P)
      /\ Runs(u, "demand") /\ "demand" \in Found
  BY <1>1, Looks DEF Found
<1>3. booting' \in BOOLEAN
  BY <1>1, <1>2 DEF TaskOK
<1>4. CASE keychain # None /\ task' = [task EXCEPT ![u] = [@ EXCEPT !.d = keychain, !.todo = Rest(u)]]
  <2> DEFINE r == Rest(u)
  <2> DEFINE t == [op |-> "demand", d |-> keychain, todo |-> r]
  <2>1. First(r) = "current" /\ r # <<>>
    <3>1. First(r) = "current"
      BY <1>2 DEF Follows, StoreFlow, ClearFlow
    <3> QED
      BY <3>1 DEF First
  <2>2. task' = [task EXCEPT ![u] = t]
    <3>1. [task[u] EXCEPT !.d = keychain, !.todo = r] = t
      <4>1. task[u] \in Tasks /\ task[u].op = "demand"
        BY <1>2
      <4>2. [task[u] EXCEPT !.d = keychain, !.todo = r] = [op |-> task[u].op, d |-> keychain, todo |-> r]
        BY <4>1, WithBoth, Zenon
      <4> QED
        BY <4>1, <4>2
    <3> HIDE DEF t
    <3> QED
      BY <1>4, <3>1
  <2>3. t \in Tasks
    BY <1>2 DEF TypeOK, Tasks, Ops
  <2>4. TaskOK' /\ ScriptInv' /\ (\A v \in Actors \ {u} : task'[v] = task[v]) /\ task'[u] = t /\ Place(u)' = First(r)
    BY <1>2, <1>3, <2>1, <2>2, <2>3, Takes
  <2> QED
    BY <1>1, <1>2, <1>4, <2>1, <2>4
<1>5. ASSUME NEW todo \in {LoadBackup, RestoreBackup}, task' = [task EXCEPT ![u] = [@ EXCEPT !.todo = todo]]
      PROVE  /\ TaskOK' /\ ScriptInv' /\ \A v \in Actors \ {u} : task'[v] = task[v]
             /\ task'[u].op = "demand" /\ Place(u)' = "fallback" /\ task'[u].d = task[u].d
  <2> DEFINE t == [op |-> "demand", d |-> task[u].d, todo |-> todo]
  <2>1. todo \in Seq(Steps) /\ todo # <<>> /\ First(todo) = "fallback"
    <3>1. LoadBackup \in Seq(Steps) /\ LoadBackup # <<>> /\ First(LoadBackup) = "fallback"
      BY Programs, StepNames DEF First
    <3>2. RestoreBackup \in Seq(Steps) /\ RestoreBackup # <<>> /\ First(RestoreBackup) = "fallback"
      BY Programs, StepNames DEF First
    <3> QED
      BY <1>5, <3>1, <3>2
  <2>2. task' = [task EXCEPT ![u] = t]
    <3>1. [task[u] EXCEPT !.todo = todo] = t
      BY <1>2 DEF Tasks
    <3> HIDE DEF t
    <3> QED
      BY <1>5, <3>1
  <2>3. t \in Tasks
    BY <1>2, <2>1 DEF Tasks, Ops
  <2>4. \E P \in Scripts("demand") : todo \in Suffixes(P)
    BY Branches
  <2>5. TaskOK' /\ ScriptInv' /\ (\A v \in Actors \ {u} : task'[v] = task[v]) /\ task'[u] = t /\ Place(u)' = First(todo)
    BY <1>2, <1>3, <2>1, <2>2, <2>3, <2>4, Takes
  <2> QED
    BY <2>1, <2>5
<1>6. CASE task' = [task EXCEPT ![u] = Idle]
  BY <1>1, <1>2, <1>3, <1>6, Stops
<1>7. \/ keychain # None /\ task' = [task EXCEPT ![u] = [@ EXCEPT !.d = keychain, !.todo = Rest(u)]]
      \/ \E todo \in {LoadBackup, RestoreBackup} : task' = [task EXCEPT ![u] = [@ EXCEPT !.todo = todo]]
      \/ task' = [task EXCEPT ![u] = Idle]
  BY DEF ReadKeychain
<1> QED
  BY <1>1, <1>2, <1>4, <1>5, <1>6, <1>7

\* The backup has an identity, which is loaded or first stored again, or none.
LEMMA FallbackMoves ==
    ASSUME TypeOK, ScriptInv, NEW u \in Actors, Fallback(u)
    PROVE  /\ TaskOK' /\ ScriptInv' /\ task[u] # Idle /\ booting' = booting
           /\ u = "screen" /\ task[u].op = "demand" /\ Place(u) = "fallback"
           /\ \A v \in Actors \ {u} : task'[v] = task[v]
           /\ \/ task'[u] = Idle /\ Place(u)' = "end"
              \/ /\ task'[u].op = "demand" /\ Place(u)' \in {"current", "keychain"}
                 /\ backup # None /\ task'[u].d = backup
<1>1. At(u, "fallback") /\ booting' = booting
  BY DEF Fallback
<1>2. /\ TaskOK /\ Place(u) = "fallback" /\ task[u] # Idle /\ task[u] \in Tasks
      /\ u = "screen" /\ task[u].op = "demand"
      /\ Rest(u) \in Seq(Steps) /\ Follows("demand", "fallback", First(Rest(u)))
      /\ Rest(u) # <<>> => \E P \in Scripts(task[u].op) : Rest(u) \in Suffixes(P)
      /\ Runs(u, "demand") /\ "demand" \in Found
  BY <1>1, Looks DEF Found
<1>3. booting' \in BOOLEAN
  BY <1>1, <1>2 DEF TaskOK
<1>4. CASE backup # None /\ task' = [task EXCEPT ![u] = [@ EXCEPT !.d = backup, !.todo = Rest(u)]]
  <2> DEFINE r == Rest(u)
  <2> DEFINE t == [op |-> "demand", d |-> backup, todo |-> r]
  <2>1. First(r) \in {"current", "keychain"} /\ r # <<>>
    <3>1. First(r) \in {"current", "keychain"}
      BY <1>2 DEF Follows, StoreFlow, ClearFlow
    <3> QED
      BY <3>1 DEF First
  <2>2. task' = [task EXCEPT ![u] = t]
    <3>1. [task[u] EXCEPT !.d = backup, !.todo = r] = t
      <4>1. task[u] \in Tasks /\ task[u].op = "demand"
        BY <1>2
      <4>2. [task[u] EXCEPT !.d = backup, !.todo = r] = [op |-> task[u].op, d |-> backup, todo |-> r]
        BY <4>1, WithBoth, Zenon
      <4> QED
        BY <4>1, <4>2
    <3> HIDE DEF t
    <3> QED
      BY <1>4, <3>1
  <2>3. t \in Tasks
    BY <1>2 DEF TypeOK, Tasks, Ops
  <2>4. TaskOK' /\ ScriptInv' /\ (\A v \in Actors \ {u} : task'[v] = task[v]) /\ task'[u] = t /\ Place(u)' = First(r)
    BY <1>2, <1>3, <2>1, <2>2, <2>3, Takes
  <2> QED
    BY <1>1, <1>2, <1>4, <2>1, <2>4
<1>5. CASE task' = [task EXCEPT ![u] = Idle]
  BY <1>1, <1>2, <1>3, <1>5, Stops
<1>6. \/ backup # None /\ task' = [task EXCEPT ![u] = [@ EXCEPT !.d = backup, !.todo = Rest(u)]]
      \/ task' = [task EXCEPT ![u] = Idle]
  BY DEF Fallback
<1> QED
  BY <1>4, <1>5, <1>6

\* The bootstrap restores the identity of the backup, finds none, or wipes a
\* malformed one.
LEMMA ReadBackupMoves ==
    ASSUME TypeOK, ScriptInv, ReadBackup
    PROVE  /\ TaskOK' /\ ScriptInv' /\ Place("boot") = "readBackup" /\ task["boot"].op = "boot"
           /\ \A v \in Actors \ {"boot"} : task'[v] = task[v]
           /\ \/ /\ backup \notin {None, Legacy} /\ booting' = TRUE
                 /\ current' = backup /\ bound' = backup
                 /\ task'["boot"].op = "boot" /\ task'["boot"].d = backup /\ Place("boot")' = "handle"
              \/ /\ booting' = FALSE /\ UNCHANGED <<current, bound>>
                 /\ task'["boot"] = Idle /\ Place("boot")' = "end"
              \/ /\ backup = Legacy /\ booting' = TRUE /\ UNCHANGED <<current, bound>>
                 /\ task'["boot"].op = "boot" /\ task'["boot"].d = task["boot"].d
                 /\ Place("boot")' = "rmKeychain"
<1>1. At("boot", "readBackup") /\ "boot" \in Actors
  BY DEF ReadBackup, Actors
<1>2. /\ TaskOK /\ Place("boot") = "readBackup" /\ task["boot"] # Idle /\ task["boot"] \in Tasks
      /\ task["boot"].op = "boot" /\ Runs("boot", "boot") /\ "boot" \in Found
  BY <1>1, Looks DEF Found
<1> DEFINE c == Clear \o <<"noCurrent">>
<1>3. \/ /\ backup \notin {None, Legacy} /\ booting' = TRUE /\ current' = backup /\ bound' = backup
         /\ task' = [task EXCEPT !["boot"] = [op |-> "boot", d |-> backup, todo |-> RestoreHandles]]
      \/ /\ booting' = FALSE /\ UNCHANGED <<current, bound>> /\ task' = [task EXCEPT !["boot"] = Idle]
      \/ /\ backup = Legacy /\ booting' = TRUE /\ UNCHANGED <<current, bound>>
         /\ task' = [task EXCEPT !["boot"] = [@ EXCEPT !.todo = c]]
  BY AuthAssumption DEF ReadBackup
<1>4. CASE /\ backup \notin {None, Legacy} /\ booting' = TRUE /\ current' = backup /\ bound' = backup
           /\ task' = [task EXCEPT !["boot"] = [op |-> "boot", d |-> backup, todo |-> RestoreHandles]]
  <2> DEFINE t == [op |-> "boot", d |-> backup, todo |-> RestoreHandles]
  <2>1. RestoreHandles \in Seq(Steps) /\ RestoreHandles # <<>> /\ First(RestoreHandles) = "handle"
    BY Programs, StepNames DEF First
  <2>2. t \in Tasks
    BY <2>1 DEF Tasks, TypeOK, Ops
  <2>3. \E P \in Scripts("boot") : RestoreHandles \in Suffixes(P)
    BY Branches
  <2>4. /\ TaskOK' /\ ScriptInv' /\ (\A v \in Actors \ {"boot"} : task'[v] = task[v])
        /\ task'["boot"] = t /\ Place("boot")' = First(RestoreHandles)
    BY <1>1, <1>2, <1>4, <2>1, <2>2, <2>3, Takes
  <2> QED
    BY <1>2, <1>4, <2>1, <2>4
<1>5. CASE booting' = FALSE /\ UNCHANGED <<current, bound>> /\ task' = [task EXCEPT !["boot"] = Idle]
  BY <1>1, <1>2, <1>5, Stops
<1>6. CASE /\ backup = Legacy /\ booting' = TRUE /\ UNCHANGED <<current, bound>>
           /\ task' = [task EXCEPT !["boot"] = [@ EXCEPT !.todo = c]]
  <2> DEFINE t == [op |-> "boot", d |-> task["boot"].d, todo |-> c]
  <2>1. c = <<"rmKeychain", "rmBackup", "rmId", "noCurrent">>
    BY Branches
  <2>2. c \in Seq(Steps) /\ c # <<>> /\ First(c) = "rmKeychain"
    <3> HIDE DEF c
    <3> QED
      BY <2>1, StepNames DEF First
  <2>3. \E P \in Scripts("boot") : c \in Suffixes(P)
    BY Branches
  <2> HIDE DEF c
  <2>4. task' = [task EXCEPT !["boot"] = t]
    <3>1. [task["boot"] EXCEPT !.todo = c] = t
      BY <1>2 DEF Tasks
    <3> HIDE DEF t
    <3> QED
      BY <1>6, <3>1
  <2>5. t \in Tasks
    BY <1>2, <2>2 DEF Tasks, Ops
  <2>6. /\ TaskOK' /\ ScriptInv' /\ (\A v \in Actors \ {"boot"} : task'[v] = task[v])
        /\ task'["boot"] = t /\ Place("boot")' = First(c)
    BY <1>1, <1>2, <1>6, <2>2, <2>3, <2>4, <2>5, Takes
  <2> QED
    BY <1>2, <1>6, <2>2, <2>6
<1> HIDE DEF c
<1> QED
  BY <1>3, <1>4, <1>5, <1>6

\* The splash screen goes and the record is fetched.
LEMMA RestoreHandleMoves ==
    ASSUME TypeOK, ScriptInv, RestoreHandle
    PROVE  /\ TaskOK' /\ ScriptInv' /\ Place("boot") = "handle" /\ booting' = FALSE
           /\ task["boot"].op = "boot" /\ \A v \in Actors \ {"boot"} : task'[v] = task[v]
           /\ task'["boot"].op = "boot" /\ task'["boot"].d = task["boot"].d /\ Place("boot")' = "fetch"
<1>1. At("boot", "handle") /\ "boot" \in Actors /\ booting' = FALSE
  BY DEF RestoreHandle, Actors
<1>2. /\ TaskOK /\ Place("boot") = "handle" /\ task["boot"] # Idle /\ task["boot"] \in Tasks
      /\ task["boot"].op = "boot" /\ Runs("boot", "boot") /\ "boot" \in Found
      /\ Rest("boot") \in Seq(Steps) /\ Follows("boot", "handle", First(Rest("boot")))
      /\ Rest("boot") # <<>> => \E P \in Scripts(task["boot"].op) : Rest("boot") \in Suffixes(P)
  BY <1>1, Looks DEF Found
<1> DEFINE r == Rest("boot")
<1> DEFINE t == [op |-> "boot", d |-> task["boot"].d, todo |-> r]
<1>3. First(r) = "fetch" /\ r # <<>>
  <2>1. First(r) = "fetch"
    BY <1>2 DEF Follows, StoreFlow, ClearFlow
  <2> QED
    BY <2>1 DEF First
<1>4. task' = [task EXCEPT !["boot"] = t]
  <2>1. [task["boot"] EXCEPT !.todo = r] = t
    BY <1>2 DEF Tasks
  <2>2. task' = [task EXCEPT !["boot"] = [@ EXCEPT !.todo = r]]
    BY DEF RestoreHandle
  <2> HIDE DEF t
  <2> QED
    BY <2>1, <2>2
<1>5. t \in Tasks
  BY <1>2 DEF Tasks, Ops
<1>6. /\ TaskOK' /\ ScriptInv' /\ (\A v \in Actors \ {"boot"} : task'[v] = task[v])
      /\ task'["boot"] = t /\ Place("boot")' = First(r)
  BY <1>1, <1>2, <1>3, <1>4, <1>5, Takes
<1> QED
  BY <1>1, <1>2, <1>3, <1>6

\* A new operation begins at the first place of its program.
Starts(u, op, d, y) ==
    /\ task[u] = Idle /\ booting' = booting
    /\ \A v \in Actors \ {u} : task'[v] = task[v]
    /\ task'[u].op = op /\ task'[u].d = d /\ Place(u)' = y

LEMMA BeginStarts ==
    ASSUME TaskOK, ScriptInv, NEW u \in Actors, NEW op, NEW d \in Dids \cup {Legacy, None},
           NEW P \in Scripts(op), op \in Ops \ {"none"}, Runs(u, op),
           op \notin Found => d \in Dids, P # <<>>,
           Begin(u, op, d, P)
    PROVE  TaskOK' /\ ScriptInv' /\ Starts(u, op, d, First(P))
<1> DEFINE t == [op |-> op, d |-> d, todo |-> P]
<1>1. P \in Seq(Steps)
  BY ProgramsFlow DEF Along
<1>2. P \in Suffixes(P)
  <2>1. SubSeq(P, 1, Len(P)) = P /\ 1 \in 1..Len(P)
    BY <1>1
  <2> QED
    BY <2>1 DEF Suffixes
<1>3. task' = [task EXCEPT ![u] = t] /\ booting' = booting /\ task[u] = Idle
  BY DEF Begin
<1>4. t \in Tasks /\ booting' \in BOOLEAN
  BY <1>1, <1>3 DEF Tasks, TaskOK
<1>5. TaskOK' /\ ScriptInv' /\ (\A v \in Actors \ {u} : task'[v] = task[v]) /\ task'[u] = t /\ Place(u)' = First(P)
  BY <1>2, <1>3, <1>4, Takes
<1> QED
  BY <1>3, <1>5 DEF Starts

\* The operations that begin, with the conditions the proofs use.
StartsOne(d) ==
    \/ /\ ~booting /\ current = None
       /\ \/ d \notin half /\ Starts("screen", "recover", d, "recover")
          \/ d \in accounts /\ Starts("screen", "signIn", d, "login")
          \/ d \in wallets /\ Starts("screen", "signIn", d, "readId")
          \/ d \notin half /\ Starts("screen", "migrate", d, "migrate")
          \/ Starts("screen", "demand", None, "readKeychain")
          \/ Fresh(d) /\ Starts("screen", "register", d, "begin")
    \/ /\ ~booting /\ current # None
       /\ \/ Starts("screen", "signOut", current, "rmKeychain")
          \/ \E y \in {"keychain", "current"} : Starts("screen", "update", current, y)
    \/ pendingSeed # None /\ current = None /\ Starts("seed", "seed", pendingSeed, "keychain")
    \/ /\ current \notin {None, Legacy}
       /\ \/ ~booting /\ Starts("auto", "cleanup", current, "setFlag")
          \/ ~booting /\ Starts("auto", "claim", current, "claim")
          \/ Starts("auto", "rereg", current, "reregister")

Begins(d) == ScreenBegins(d) \/ RegisterBegins(d) \/ SeedConfirmed \/ AutoBegins

LEMMA BeginsOne ==
    ASSUME TypeOK, ScriptInv, NEW d \in Dids, Begins(d)
    PROVE  /\ TaskOK' /\ ScriptInv' /\ StartsOne(d)
           /\ \E u, op, e, P : Begin(u, op, e, P)
<1>0. TaskOK /\ "screen" \in Actors /\ "seed" \in Actors /\ "auto" \in Actors
  BY TasksOK DEF Actors
<1>1. /\ RecoverIdentity \in Scripts("recover") /\ PasswordSignIn \in Scripts("signIn")
      /\ UpgradeLegacy \in Scripts("signIn") /\ MigrateFromSeed \in Scripts("migrate")
      /\ LoadOnDemand \in Scripts("demand") /\ SignOut \in Scripts("signOut")
      /\ RegisterAccount \in Scripts("register") /\ Activate \in Scripts("seed")
      /\ ForceCleanup \in Scripts("cleanup") /\ ClaimUsername \in Scripts("claim")
      /\ {Hydrated, UpdatePassphrase} \subseteq Scripts("update") /\ Reregister \in Scripts("rereg")
  BY DEF Scripts
<1>2. /\ RecoverIdentity # <<>> /\ First(RecoverIdentity) = "recover"
      /\ PasswordSignIn # <<>> /\ First(PasswordSignIn) = "login"
      /\ UpgradeLegacy # <<>> /\ First(UpgradeLegacy) = "readId"
      /\ MigrateFromSeed # <<>> /\ First(MigrateFromSeed) = "migrate"
      /\ LoadOnDemand # <<>> /\ First(LoadOnDemand) = "readKeychain"
      /\ SignOut # <<>> /\ First(SignOut) = "rmKeychain"
      /\ RegisterAccount # <<>> /\ First(RegisterAccount) = "begin"
      /\ Activate # <<>> /\ First(Activate) = "keychain"
      /\ ForceCleanup # <<>> /\ First(ForceCleanup) = "setFlag"
      /\ ClaimUsername # <<>> /\ First(ClaimUsername) = "claim"
      /\ Hydrated # <<>> /\ First(Hydrated) = "keychain"
      /\ UpdatePassphrase # <<>> /\ First(UpdatePassphrase) = "current"
      /\ Reregister # <<>> /\ First(Reregister) = "reregister"
  BY Programs DEF First
<1>3. /\ \A op \in {"recover", "signIn", "migrate", "demand", "signOut", "update", "register", "seed", "cleanup",
                   "claim", "rereg"} :
            op \in Ops \ {"none"}
      /\ \A op \in {"recover", "signIn", "migrate", "demand", "signOut", "update", "register"} : Runs("screen", op)
      /\ Runs("seed", "seed") /\ Runs("auto", "cleanup") /\ Runs("auto", "claim") /\ Runs("auto", "rereg")
      /\ {"demand", "signOut", "update"} \subseteq Found
  BY DEF Runs, Ops, Loaders, Found
<1>4. pendingSeed # None => pendingSeed \in Dids
  BY DEF TypeOK
<1>5. (current \notin {None, Legacy} => current \in Dids) /\ current \in Dids \cup {Legacy, None}
  BY DEF TypeOK
<1>6. ASSUME ScreenBegins(d)
      PROVE  TaskOK' /\ ScriptInv' /\ StartsOne(d) /\ \E u, op, e, P : Begin(u, op, e, P)
  <2>0. ~booting
    BY <1>6 DEF ScreenBegins
  <2>1. CASE current = None /\ d \notin half /\ Begin("screen", "recover", d, RecoverIdentity)
    <3>1. TaskOK' /\ ScriptInv' /\ Starts("screen", "recover", d, "recover")
      BY <1>0, <1>1, <1>2, <1>3, <2>1, BeginStarts
    <3> QED
      BY <2>0, <2>1, <3>1 DEF StartsOne
  <2>2. CASE current = None /\ d \in accounts /\ Begin("screen", "signIn", d, PasswordSignIn)
    <3>1. TaskOK' /\ ScriptInv' /\ Starts("screen", "signIn", d, "login")
      BY <1>0, <1>1, <1>2, <1>3, <2>2, BeginStarts
    <3> QED
      BY <2>0, <2>2, <3>1 DEF StartsOne
  <2>3. CASE current = None /\ d \in wallets /\ Begin("screen", "signIn", d, UpgradeLegacy)
    <3>1. TaskOK' /\ ScriptInv' /\ Starts("screen", "signIn", d, "readId")
      BY <1>0, <1>1, <1>2, <1>3, <2>3, BeginStarts
    <3> QED
      BY <2>0, <2>3, <3>1 DEF StartsOne
  <2>4. CASE current = None /\ flag /\ d \notin half /\ Begin("screen", "migrate", d, MigrateFromSeed)
    <3>1. TaskOK' /\ ScriptInv' /\ Starts("screen", "migrate", d, "migrate")
      BY <1>0, <1>1, <1>2, <1>3, <2>4, BeginStarts
    <3> QED
      BY <2>0, <2>4, <3>1 DEF StartsOne
  <2>5. CASE current = None /\ Begin("screen", "demand", None, LoadOnDemand)
    <3>1. TaskOK' /\ ScriptInv' /\ Starts("screen", "demand", None, "readKeychain")
      BY <1>0, <1>1, <1>2, <1>3, <2>5, BeginStarts
    <3> QED
      BY <2>0, <2>5, <3>1 DEF StartsOne
  <2>6. CASE current # None /\ Begin("screen", "signOut", current, SignOut)
    <3>1. TaskOK' /\ ScriptInv' /\ Starts("screen", "signOut", current, "rmKeychain")
      BY <1>0, <1>1, <1>2, <1>3, <1>5, <2>6, BeginStarts
    <3> QED
      BY <2>0, <2>6, <3>1 DEF StartsOne
  <2>7. CASE current # None /\ Begin("screen", "update", current, Hydrated)
    <3>1. TaskOK' /\ ScriptInv' /\ Starts("screen", "update", current, "keychain")
      BY <1>0, <1>1, <1>2, <1>3, <1>5, <2>7, BeginStarts
    <3> QED
      BY <2>0, <2>7, <3>1 DEF StartsOne
  <2>8. CASE current # None /\ Begin("screen", "update", current, UpdatePassphrase)
    <3>1. TaskOK' /\ ScriptInv' /\ Starts("screen", "update", current, "current")
      BY <1>0, <1>1, <1>2, <1>3, <1>5, <2>8, BeginStarts
    <3> QED
      BY <2>0, <2>8, <3>1 DEF StartsOne
  <2> QED
    BY <1>6, <2>1, <2>2, <2>3, <2>4, <2>5, <2>6, <2>7, <2>8, Zenon DEF ScreenBegins
<1>7. ASSUME RegisterBegins(d)
      PROVE  TaskOK' /\ ScriptInv' /\ StartsOne(d) /\ \E u, op, e, P : Begin(u, op, e, P)
  <2>1. ~booting /\ current = None /\ Fresh(d) /\ Begin("screen", "register", d, RegisterAccount)
    BY <1>7 DEF RegisterBegins
  <2>2. TaskOK' /\ ScriptInv' /\ Starts("screen", "register", d, "begin")
    BY <1>0, <1>1, <1>2, <1>3, <2>1, BeginStarts
  <2> QED
    BY <2>1, <2>2 DEF StartsOne
<1>8. ASSUME SeedConfirmed
      PROVE  TaskOK' /\ ScriptInv' /\ StartsOne(d) /\ \E u, op, e, P : Begin(u, op, e, P)
  <2>1. pendingSeed # None /\ current = None /\ Begin("seed", "seed", pendingSeed, Activate)
    BY <1>8 DEF SeedConfirmed
  <2>2. TaskOK' /\ ScriptInv' /\ Starts("seed", "seed", pendingSeed, "keychain")
    BY <1>0, <1>1, <1>2, <1>3, <1>4, <2>1, BeginStarts
  <2> QED
    BY <2>1, <2>2 DEF StartsOne
<1>9. ASSUME AutoBegins
      PROVE  TaskOK' /\ ScriptInv' /\ StartsOne(d) /\ \E u, op, e, P : Begin(u, op, e, P)
  <2>0. current \notin {None, Legacy}
    BY <1>9 DEF AutoBegins
  <2>1. CASE ~booting /\ Begin("auto", "cleanup", current, ForceCleanup)
    <3>1. TaskOK' /\ ScriptInv' /\ Starts("auto", "cleanup", current, "setFlag")
      BY <1>0, <1>1, <1>2, <1>3, <1>5, <2>0, <2>1, BeginStarts
    <3> QED
      BY <2>0, <2>1, <3>1 DEF StartsOne
  <2>2. CASE ~booting /\ Begin("auto", "claim", current, ClaimUsername)
    <3>1. TaskOK' /\ ScriptInv' /\ Starts("auto", "claim", current, "claim")
      BY <1>0, <1>1, <1>2, <1>3, <1>5, <2>0, <2>2, BeginStarts
    <3> QED
      BY <2>0, <2>2, <3>1 DEF StartsOne
  <2>3. CASE Begin("auto", "rereg", current, Reregister)
    <3>1. TaskOK' /\ ScriptInv' /\ Starts("auto", "rereg", current, "reregister")
      BY <1>0, <1>1, <1>2, <1>3, <1>5, <2>0, <2>3, BeginStarts
    <3> QED
      BY <2>0, <2>3, <3>1 DEF StartsOne
  <2> QED
    BY <1>9, <2>1, <2>2, <2>3 DEF AutoBegins
<1> QED
  BY <1>6, <1>7, <1>8, <1>9 DEF Begins

-----------------------------------------------------------------------------
(***************************************************************************)
(* Types and the bootstrap.                                                *)
(***************************************************************************)
WipePlaces == {"native", "dropId", "rmKeychain", "rmBackup", "rmId", "noCurrent"}
BootPlaces == {"readFlag", "loadLobby", "readBackup"} \cup WipePlaces
OpenPlaces == {"end", "fetch", "keychain", "backup", "id", "current"}

\* Until the splash screen goes away only the bootstrap runs and nobody is
\* signed in, except that a re-registration may start once an identity is
\* restored; afterwards the bootstrap at most saves the record it fetched.
BootInv ==
    /\ booting => /\ pendingSeed = None
                  /\ task["screen"] = Idle /\ task["seed"] = Idle
                  /\ task["auto"] = Idle \/ task["auto"].op = "rereg"
                  /\ Place("boot") \in BootPlaces \cup {"handle"}
                  /\ Place("boot") # "handle" => current = None /\ task["auto"] = Idle
    /\ ~booting => Place("boot") \in OpenPlaces

ControlInv == TypeOK /\ ScriptInv /\ BootInv

\* What TypeOK says of the variables other than task and booting.
DataOK ==
    /\ {keychain, backup, id, current, bound} \subseteq Dids \cup {Legacy, None}
    /\ {lobbyStore, lobby, pendingSeed} \subseteq Dids \cup {None}
    /\ readable \in BOOLEAN /\ cut \in BOOLEAN
    /\ flag \in BOOLEAN /\ loading \in BOOLEAN /\ torn \in BOOLEAN
    /\ wallets \subseteq Dids /\ accounts \subseteq Dids /\ half \subseteq Dids
    /\ ops \in 0..MaxOps /\ relaunches \in 0..MaxRelaunches /\ faults \in 0..MaxFaults

LEMMA TypeParts == TypeOK <=> TaskOK /\ DataOK
BY DEF TypeOK, TaskOK, DataOK

\* The steps that name the identity of their operation have a well-formed one.
LEMMA Owner ==
    ASSUME TaskOK, ScriptInv, NEW u \in Actors,
           Place(u) \in {"recover", "restored", "create", "complete", "saveLobby", "show", "bind"}
    PROVE  task[u].d \in Dids /\ u # "boot"
<1>1. task[u] # Idle
  BY AtPlace
<1>2. /\ Runs(u, task[u].op) /\ \E y : Follows(task[u].op, Place(u), y)
      /\ task[u].op \notin Found => task[u].d \in Dids
  BY <1>1, PlaceOp
<1>3. task[u].op \notin Found
  BY <1>2 DEF Follows, StoreFlow, ClearFlow, Found
<1> QED
  BY <1>2, <1>3 DEF Runs, Found

LEMMA TaskDid == ASSUME TaskOK, NEW u \in Actors PROVE task[u].d \in Dids \cup {Legacy, None}
BY DEF TaskOK, Tasks

\* A move of one task keeps what the bootstrap promises.
LEMMA BootMove ==
    ASSUME TaskOK, BootInv, NEW u \in Actors, task[u] # Idle, NEW y, Moves(u, y),
           u = "boot" /\ booting => /\ y \in BootPlaces \cup {"end"} /\ Place(u) # "handle"
                                   /\ current' = None,
           u = "boot" /\ ~booting => y \in OpenPlaces,
           booting => pendingSeed' = None
    PROVE  BootInv'
<1>1. Actors = {"boot", "screen", "seed", "auto"} /\ "end" \notin BootPlaces /\ "handle" \notin BootPlaces
  BY DEF Actors, BootPlaces, WipePlaces
<1>2. CASE u = "boot"
  <2>1. CASE booting
    <3>1. CASE y = "end"
      <4>1. booting' = FALSE /\ Place("boot")' = "end"
        BY <1>2, <3>1 DEF Moves
      <4> QED
        BY <4>1 DEF BootInv, OpenPlaces
    <3>2. CASE y # "end"
      <4>1. task'["screen"] = task["screen"] /\ task'["seed"] = task["seed"] /\ task'["auto"] = task["auto"]
        BY <1>1, <1>2 DEF Moves
      <4>2. Place("boot")' = y /\ booting' = TRUE
        BY <1>2, <2>1, <3>2 DEF Moves
      <4> QED
        BY <1>1, <1>2, <2>1, <3>2, <4>1, <4>2 DEF BootInv
    <3> QED
      BY <3>1, <3>2
  <2>2. CASE ~booting
    BY <1>2, <2>2 DEF BootInv, Moves
  <2> QED
    BY <2>1, <2>2
<1>3. CASE u # "boot"
  <2>1. booting' = booting /\ task'["boot"] = task["boot"]
    BY <1>1, <1>3 DEF Moves, TaskOK
  <2>2. Place("boot")' = Place("boot")
    BY <2>1 DEF Place
  <2>3. CASE ~booting
    BY <2>1, <2>2, <2>3 DEF BootInv
  <2>4. CASE booting
    <3>1. u = "auto" /\ task[u].op = "rereg" /\ Place("boot") = "handle"
      BY <1>1, <1>3, <2>4 DEF BootInv
    <3>2. task'["screen"] = task["screen"] /\ task'["seed"] = task["seed"]
      BY <1>1, <3>1 DEF Moves
    <3>3. task'["auto"] = Idle \/ task'["auto"].op = "rereg"
      BY <3>1 DEF Moves
    <3> QED
      BY <2>1, <2>2, <2>4, <3>1, <3>2, <3>3 DEF BootInv
  <2> QED
    BY <2>3, <2>4
<1> QED
  BY <1>2, <1>3

\* The flow of the bootstrap before and after the splash screen.
LEMMA BootFlow ==
    ASSUME NEW x, NEW y, Follows("boot", x, y)
    PROVE  /\ x \in BootPlaces => y \in BootPlaces \cup {"end"}
           /\ x \in OpenPlaces => y \in OpenPlaces
BY DEF Follows, StoreFlow, ClearFlow, BootPlaces, WipePlaces, OpenPlaces

LEMMA WalkControl ==
    ASSUME ControlInv, NEW u \in Actors, Walks(u)
    PROVE  ControlInv'
<1>0. TypeOK /\ TaskOK /\ DataOK /\ ScriptInv /\ BootInv
  BY TypeParts DEF ControlInv
<1>1. TaskOK' /\ ScriptInv' /\ task[u] # Idle
  BY <1>0, WalkMoves
<1>2. PICK y : Follows(task[u].op, Place(u), y) /\ Moves(u, y)
  BY <1>0, WalkMoves
<1>3. /\ \A x \in Steps : At(u, x) <=> Place(u) = x
      /\ task[u].d \in Dids \cup {Legacy, None}
      /\ Place(u) \in {"recover", "restored", "create", "complete", "saveLobby", "show", "bind"}
            => task[u].d \in Dids /\ u # "boot"
  BY <1>0, AtPlace, TaskDid, Owner
<1>4. loading' \in BOOLEAN
  BY DEF Walks, WriteStore, ClearStore, SetCurrent, ClearCurrent, CleanNative, SetFlag, Answered,
         LobbyChanges, Bind, RemoveWallet, ShowSeed, GoOn
<1>5. DataOK'
  <2>1. CASE WriteStore(u) \/ ClearStore(u)
    BY <1>0, <1>3, <1>4, <2>1
       DEF WriteStore, ClearStore, Overlaps, DataOK, storeVars, diskVars, serverVars, boundVars
  <2>2. CASE SetCurrent(u) \/ ClearCurrent(u) \/ Bind(u)
    BY <1>0, <1>3, <1>4, <2>2
       DEF SetCurrent, ClearCurrent, Bind, Overlaps, DataOK, storeVars, diskVars, serverVars, boundVars
  <2>3. CASE CleanNative(u) \/ SetFlag(u)
    BY <1>0, <1>3, <1>4, <2>3
       DEF CleanNative, SetFlag, DataOK, storeVars, diskVars, serverVars, boundVars
  <2>6. CASE RemoveWallet(u)
    <3>1. faults' \in 0..MaxFaults
      BY <1>0, <2>6, AuthAssumption DEF RemoveWallet, DataOK
    <3>2. wallets' \subseteq Dids /\ id' \in Dids \cup {Legacy, None}
      BY <1>0, <2>6 DEF RemoveWallet, DataOK
    <3> QED
      BY <1>0, <1>4, <2>6, <3>1, <3>2 DEF RemoveWallet, DataOK, diskVars
  <2>4. CASE LobbyChanges(u) \/ ShowSeed(u)
    BY <1>0, <1>3, <1>4, <2>4, StepNames
       DEF LobbyChanges, ShowSeed, DataOK, storeVars, diskVars, serverVars, boundVars
  <2>5. CASE Answered(u)
    <3>1. /\ wallets' \subseteq Dids /\ accounts' \subseteq Dids /\ half' \subseteq Dids
      BY <1>0, <1>3, <2>5, StepNames DEF Answered, DataOK
    <3> QED
      BY <1>0, <1>4, <2>5, <3>1 DEF Answered, DataOK, storeVars, diskVars, boundVars
  <2> QED
    BY <2>1, <2>2, <2>3, <2>4, <2>5, <2>6 DEF Walks
<1>6. BootInv'
  <2>1. u = "boot" => task[u].op = "boot"
    BY <1>0, <1>1, PlaceOp DEF Runs
  <2>0. ~At(u, "handle")
    BY DEF Walks, WriteStore, ClearStore, SetCurrent, ClearCurrent, CleanNative, SetFlag, Answered, Calls,
           LobbyChanges, Bind, RemoveWallet, ShowSeed, At
  <2>6. Place(u) # "handle"
    BY <1>3, <2>0, StepNames
  <2>2. u = "boot" /\ booting => Place(u) \in BootPlaces /\ current = None
    BY <1>0, <2>6 DEF BootInv
  <2>3. u = "boot" /\ ~booting => Place(u) \in OpenPlaces
    BY <1>0 DEF BootInv
  <2>4. u = "boot" => /\ Place(u) \in BootPlaces => y \in BootPlaces \cup {"end"}
                      /\ Place(u) \in OpenPlaces => y \in OpenPlaces
    BY <1>2, <2>1, BootFlow
  <2>5. ASSUME u = "boot", booting PROVE current' = None
    <3>1. current = None
      BY <2>2, <2>5
    <3>2. ~At(u, "current")
      BY <1>3, <2>2, <2>5, StepNames DEF BootPlaces, WipePlaces
    <3> QED
      BY <3>1, <3>2
         DEF Walks, WriteStore, ClearStore, SetCurrent, ClearCurrent, CleanNative, SetFlag, Answered,
             LobbyChanges, Bind, RemoveWallet, ShowSeed
  <2>7. ASSUME booting PROVE pendingSeed' = None
    <3>1. pendingSeed = None
      BY <1>0, <2>7 DEF BootInv
    <3>2. Place(u) # "show"
      <4>1. CASE u = "boot"
        BY <2>2, <2>7, <4>1 DEF BootPlaces, WipePlaces
      <4>2. CASE u # "boot"
        <5>1. task[u].op = "rereg"
          BY <1>0, <1>1, <2>7, <4>2 DEF BootInv, Actors
        <5> QED
          BY <1>2, <5>1 DEF Follows, StoreFlow, ClearFlow
      <4> QED
        BY <4>1, <4>2
    <3>3. ~At(u, "show")
      BY <1>3, <3>2, StepNames
    <3> QED
      BY <3>1, <3>3
         DEF Walks, WriteStore, ClearStore, SetCurrent, ClearCurrent, CleanNative, SetFlag, Answered,
             LobbyChanges, Bind, RemoveWallet, ShowSeed
  <2> QED
    BY <1>0, <1>1, <1>2, <2>2, <2>3, <2>4, <2>5, <2>6, <2>7, BootMove
<1> QED
  <2>1. TypeOK'
    BY <1>1, <1>5 DEF TypeOK, TaskOK, DataOK
  <2> QED
    BY <1>1, <1>6, <2>1 DEF ControlInv

LEMMA FailControl ==
    ASSUME ControlInv, NEW u \in Actors, StoreThrows(u) \/ Refused(u) \/ CleanThrows(u)
    PROVE  ControlInv'
<1>0. TypeOK /\ TaskOK /\ DataOK /\ ScriptInv /\ BootInv
  BY TypeParts DEF ControlInv
<1>1. TaskOK' /\ ScriptInv' /\ task[u] # Idle
  BY <1>0, StoreThrowsMoves, RefusedMoves, CleanThrowsMoves
<1>8. Place(u) # "handle"
  <2>1. ~At(u, "handle")
    BY DEF StoreThrows, StoreSteps, Store, Clear, Range, Refused, Calls, CleanThrows, At
  <2> QED
    BY <1>0, <2>1, AtPlace, StepNames
<1>2. /\ u = "boot" /\ booting => Place(u) \in BootPlaces /\ current = None
      /\ u = "boot" /\ ~booting => Place(u) \in OpenPlaces
      /\ booting => pendingSeed = None
  BY <1>0, <1>8 DEF BootInv
<1>3. \E y : /\ Moves(u, y)
             /\ u = "boot" /\ booting => y \in BootPlaces \cup {"end"}
             /\ u = "boot" /\ ~booting => y \in OpenPlaces
  <2>1. CASE StoreThrows(u)
    <3>1. PICK y : /\ Moves(u, y)
                   /\ u = "boot" /\ Place(u) \in {"dropId", "rmKeychain", "rmBackup", "rmId"}
                        => y \in {"end", "noCurrent"}
                   /\ u = "boot" /\ Place(u) \in {"keychain", "backup", "id"}
                        => y \in {"end", "current"}
      BY <1>0, <2>1, StoreThrowsMoves
    <3>2. Place(u) \in StoreSteps
      BY <1>0, <2>1, StoreThrowsMoves
    <3>3. StoreSteps = {"keychain", "backup", "id", "rmKeychain", "rmBackup", "rmId", "dropId", "syncBackup"}
      BY DEF StoreSteps, Store, Clear, Range
    <3>4. u = "boot" /\ booting => Place(u) \in {"dropId", "rmKeychain", "rmBackup", "rmId"}
      BY <1>2, <3>2, <3>3 DEF BootPlaces, WipePlaces
    <3>5. u = "boot" /\ ~booting => Place(u) \in {"keychain", "backup", "id"}
      BY <1>2, <3>2, <3>3 DEF OpenPlaces
    <3> QED
      BY <3>1, <3>4, <3>5 DEF BootPlaces, WipePlaces, OpenPlaces
  <2>2. CASE Refused(u)
    <3>1. Place(u) \in Calls \cup {"saveLobby"} /\ Moves(u, AfterRefusal(u))
      BY <1>0, <2>2, RefusedMoves
    <3>2. u # "boot"
      BY <1>0, <1>2, <3>1 DEF BootPlaces, WipePlaces, OpenPlaces, TaskOK, Calls
    <3> QED
      BY <3>1, <3>2
  <2>3. CASE CleanThrows(u)
    BY <1>0, <2>3, CleanThrowsMoves DEF OpenPlaces
  <2> QED
    BY <2>1, <2>2, <2>3
<1>4. DataOK'
  <2>1. loading' \in BOOLEAN
    BY <1>0 DEF StoreThrows, Refused, CleanThrows, GoOn, DataOK
  <2>2. faults' \in 0..MaxFaults
    BY <1>0, AuthAssumption DEF StoreThrows, Refused, CleanThrows, DataOK
  <2>3. /\ current' \in Dids \cup {Legacy, None} /\ bound' \in Dids \cup {Legacy, None}
        /\ flag' \in BOOLEAN /\ torn' \in BOOLEAN
    BY <1>0 DEF StoreThrows, Refused, CleanThrows, DataOK, diskVars
  <2> QED
    BY <1>0, <2>1, <2>2, <2>3
       DEF StoreThrows, Refused, CleanThrows, DataOK, storeVars, diskVars, serverVars
<1>5. /\ u = "boot" /\ booting => current' = None
      /\ booting => pendingSeed' = None
  BY <1>2 DEF StoreThrows, Refused, CleanThrows
<1>6. BootInv'
  BY <1>0, <1>1, <1>3, <1>5, <1>8, BootMove
<1>7. TypeOK'
  BY <1>1, <1>4 DEF TypeOK, TaskOK, DataOK
<1> QED
  BY <1>1, <1>6, <1>7 DEF ControlInv

LEMMA ReadControl ==
    ASSUME ControlInv,
           \/ ReadFlag \/ LoadLobby \/ ReadBackup \/ RestoreHandle
           \/ \E u \in Actors : ReadKeychain(u) \/ Fallback(u) \/ \E changed \in BOOLEAN : Fetch(u, changed)
    PROVE  ControlInv'
<1>0. TypeOK /\ TaskOK /\ DataOK /\ ScriptInv /\ BootInv /\ "boot" \in Actors
  BY TypeParts DEF ControlInv, Actors
<1>1. CASE ReadFlag \/ LoadLobby
  <2>1. TaskOK' /\ ScriptInv' /\ task["boot"] # Idle
    BY <1>0, <1>1, ReadFlagMoves
  <2>2. PICK y : Moves("boot", y) /\ y \in BootPlaces /\ Place("boot") \in {"readFlag", "loadLobby"}
    BY <1>0, <1>1, ReadFlagMoves DEF BootPlaces, WipePlaces
  <2>3. booting /\ current = None /\ pendingSeed = None
    BY <1>0, <2>2 DEF BootInv, OpenPlaces, TaskOK
  <2>4. DataOK'
    BY <1>0, <1>1 DEF ReadFlag, LoadLobby, GoOn, DataOK, storeVars, diskVars, serverVars, boundVars
  <2>5. BootInv'
    <3>1. current' = None /\ pendingSeed' = None
      BY <1>1, <2>3 DEF ReadFlag, LoadLobby
    <3> QED
      BY <1>0, <2>1, <2>2, <2>3, <3>1, BootMove
  <2>6. TypeOK'
    BY <2>1, <2>4 DEF TypeOK, TaskOK, DataOK
  <2> QED
    BY <2>1, <2>5, <2>6 DEF ControlInv
<1>2. CASE ReadBackup
  <2>1. /\ TaskOK' /\ ScriptInv' /\ Place("boot") = "readBackup"
        /\ \A v \in Actors \ {"boot"} : task'[v] = task[v]
        /\ \/ booting' = TRUE /\ Place("boot")' = "handle"
           \/ booting' = FALSE /\ Place("boot")' = "end"
           \/ booting' = TRUE /\ Place("boot")' = "rmKeychain" /\ UNCHANGED current
    BY <1>0, <1>2, ReadBackupMoves
  <2>2. /\ booting /\ current = None /\ pendingSeed = None
        /\ task["screen"] = Idle /\ task["seed"] = Idle /\ task["auto"] = Idle
    BY <1>0, <2>1 DEF BootInv, OpenPlaces, TaskOK
  <2>3. DataOK'
    <3>1. faults' \in 0..MaxFaults
      BY <1>0, <1>2, AuthAssumption DEF ReadBackup, DataOK
    <3>2. current' \in Dids \cup {Legacy, None} /\ bound' \in Dids \cup {Legacy, None}
      BY <1>0, <1>2 DEF ReadBackup, DataOK
    <3> QED
      BY <1>0, <1>2, <3>1, <3>2 DEF ReadBackup, DataOK, storeVars, diskVars, serverVars
  <2>4. BootInv'
    <3>1. pendingSeed' = None
      BY <1>2, <2>2 DEF ReadBackup
    <3>2. CASE booting' = FALSE
      BY <2>1, <3>2 DEF BootInv, OpenPlaces
    <3>3. CASE booting' = TRUE
      <4>1. task'["screen"] = Idle /\ task'["seed"] = Idle /\ task'["auto"] = Idle
        BY <2>1, <2>2 DEF Actors
      <4> QED
        BY <2>1, <2>2, <3>1, <3>3, <4>1 DEF BootInv, BootPlaces, WipePlaces
    <3> QED
      BY <2>1, <3>2, <3>3
  <2>5. TypeOK'
    BY <2>1, <2>3 DEF TypeOK, TaskOK, DataOK
  <2> QED
    BY <2>1, <2>4, <2>5 DEF ControlInv
<1>5. CASE RestoreHandle
  <2>1. TaskOK' /\ ScriptInv' /\ booting' = FALSE /\ Place("boot")' = "fetch"
    BY <1>0, <1>5, RestoreHandleMoves
  <2>2. DataOK'
    BY <1>0, <1>5 DEF RestoreHandle, DataOK, storeVars, diskVars, serverVars, boundVars
  <2>3. BootInv'
    BY <2>1 DEF BootInv, OpenPlaces
  <2>4. TypeOK'
    BY <2>1, <2>2 DEF TypeOK, TaskOK, DataOK
  <2> QED
    BY <2>1, <2>3, <2>4 DEF ControlInv
<1>3. ASSUME NEW u \in Actors, ReadKeychain(u) \/ Fallback(u) PROVE ControlInv'
  <2>1. /\ TaskOK' /\ ScriptInv' /\ task[u] # Idle /\ booting' = booting
        /\ u = "screen" /\ \A v \in Actors \ {u} : task'[v] = task[v]
    BY <1>0, <1>3, ReadKeychainMoves, FallbackMoves
  <2>2. DataOK'
    <3>1. faults' \in 0..MaxFaults
      <4>1. CASE ReadKeychain(u)
        BY <1>0, <4>1 DEF ReadKeychain, DataOK, boundVars
      <4>2. CASE Fallback(u)
        <5>1. faults' = faults \/ (faults < MaxFaults /\ faults' = faults + 1)
          BY <4>2 DEF Fallback
        <5> QED
          BY <1>0, <5>1, AuthAssumption DEF DataOK
      <4> QED
        BY <1>3, <4>1, <4>2
    <3> QED
      BY <1>0, <1>3, <3>1 DEF ReadKeychain, Fallback, DataOK, storeVars, diskVars, serverVars, boundVars
  <2>3. BootInv'
    <3>1. ~booting
      BY <1>0, <2>1 DEF BootInv, Actors
    <3>2. task'["boot"] = task["boot"] /\ ~booting'
      BY <1>0, <2>1, <3>1
    <3> QED
      BY <1>0, <3>1, <3>2 DEF BootInv, Place
  <2>4. TypeOK'
    BY <2>1, <2>2 DEF TypeOK, TaskOK, DataOK
  <2> QED
    BY <2>1, <2>3, <2>4 DEF ControlInv
<1>4. ASSUME NEW u \in Actors, NEW changed \in BOOLEAN, Fetch(u, changed) PROVE ControlInv'
  <2>1. TaskOK' /\ ScriptInv' /\ task[u] # Idle /\ Place(u) = "fetch"
    BY <1>0, <1>4, FetchMoves
  <2>2. PICK y \in {"keychain", "end"} : Moves(u, y)
    BY <1>0, <1>4, FetchMoves
  <2>3. DataOK'
    BY <1>0, <1>4 DEF Fetch, GoOn, DataOK, storeVars, diskVars, serverVars, boundVars
  <2>4. u = "boot" => ~booting
    BY <1>0, <2>1 DEF BootInv, BootPlaces, WipePlaces
  <2>7. booting => pendingSeed' = None
    BY <1>0, <1>4 DEF BootInv, Fetch
  <2>5. BootInv'
    BY <1>0, <2>1, <2>2, <2>4, <2>7, BootMove DEF OpenPlaces
  <2>6. TypeOK'
    BY <2>1, <2>3 DEF TypeOK, TaskOK, DataOK
  <2> QED
    BY <2>1, <2>5, <2>6 DEF ControlInv
<1> QED
  BY <1>1, <1>2, <1>3, <1>4, <1>5

LEMMA BeginControl ==
    ASSUME ControlInv, NEW d \in Dids, Begins(d)
    PROVE  ControlInv'
<1>0. TypeOK /\ TaskOK /\ DataOK /\ ScriptInv /\ BootInv /\ "boot" \in Actors
  BY TypeParts DEF ControlInv, Actors
<1>1. TaskOK' /\ ScriptInv' /\ StartsOne(d)
  BY <1>0, BeginsOne
<1>2. PICK u, op, e, P : Begin(u, op, e, P)
  BY <1>0, BeginsOne
<1>3. DataOK'
  <2>1. ops' \in 0..MaxOps /\ loading' \in BOOLEAN
    BY <1>0, <1>2, AuthAssumption DEF Begin, DataOK
  <2> QED
    BY <1>0, <1>2, <2>1 DEF Begin, DataOK, storeVars, diskVars, serverVars
<1>4. BootInv'
  <2>1. \/ ~booting
        \/ current # None /\ Starts("auto", "rereg", current, "reregister")
    BY <1>0, <1>1 DEF StartsOne, BootInv
  <2>2. booting' = booting /\ task'["boot"] = task["boot"] /\ Place("boot")' = Place("boot")
    BY <1>0, <1>1 DEF StartsOne, Starts, Place
  <2>3. CASE ~booting
    BY <1>0, <2>2, <2>3 DEF BootInv
  <2>4. CASE current # None /\ Starts("auto", "rereg", current, "reregister")
    <3>1. /\ task'["screen"] = task["screen"] /\ task'["seed"] = task["seed"]
          /\ task'["auto"].op = "rereg"
      BY <2>4 DEF Starts, Actors
    <3>2. pendingSeed' = pendingSeed
      BY <1>2 DEF Begin
    <3>3. booting => Place("boot") = "handle"
      BY <1>0, <2>4 DEF BootInv
    <3> QED
      BY <1>0, <2>2, <3>1, <3>2, <3>3 DEF BootInv
  <2> QED
    BY <2>1, <2>3, <2>4
<1>5. TypeOK'
  BY <1>1, <1>3 DEF TypeOK, TaskOK, DataOK
<1> QED
  BY <1>1, <1>4, <1>5 DEF ControlInv

\* A reset of the Keystore touches no task.
LEMMA ResetControl ==
    ASSUME ControlInv, KeystoreReset
    PROVE  ControlInv'
BY DEF KeystoreReset, diskVars, serverVars, boundVars, ControlInv, TypeOK, ScriptInv, BootInv, Place

\* A launch starts with the bootstrap alone.
LEMMA LaunchTasks ==
    ASSUME NEW t, t = Launched
    PROVE  /\ t \in [Actors -> Tasks] /\ \A u \in Actors : t[u].todo = <<>> => t[u] = Idle
           /\ \A u \in Actors \ {"boot"} : t[u] = Idle
           /\ t["boot"].op = "boot" /\ t["boot"].d = None /\ t["boot"].todo = Boot
           /\ First(t["boot"].todo) = "readFlag" /\ Boot \in Suffixes(Boot)
<1>1. Boot \in Seq(Steps) /\ Boot # <<>> /\ First(Boot) = "readFlag"
  BY StepNames DEF Boot, First
<1>2. Boot \in Suffixes(Boot)
  <2>1. ASSUME NEW P \in Seq(Steps), P # <<>> PROVE P \in Suffixes(P)
    <3>1. SubSeq(P, 1, Len(P)) = P /\ 1 \in 1..Len(P)
      BY <2>1
    <3> QED
      BY <3>1 DEF Suffixes
  <2> QED
    BY <1>1, <2>1
<1>3. /\ \A u \in Actors \ {"boot"} : t[u] = Idle
      /\ t["boot"] = [op |-> "boot", d |-> None, todo |-> Boot]
      /\ DOMAIN t = Actors /\ "boot" \in Actors
  BY DEF Launched, Actors
<1>4. Idle \in Tasks /\ t["boot"] \in Tasks
  BY <1>1, <1>3 DEF Idle, Tasks, Ops
<1>5. t \in [Actors -> Tasks]
  <2>1. \A u \in Actors : t[u] \in Tasks
    BY <1>3, <1>4
  <2> QED
    BY <1>3, <2>1 DEF Launched
<1> QED
  BY <1>1, <1>2, <1>3, <1>5

LEMMA LaunchControl ==
    ASSUME ControlInv, Relaunch
    PROVE  ControlInv'
<1>0. TypeOK /\ TaskOK /\ DataOK
  BY TypeParts DEF ControlInv
<1>1. task' = Launched /\ booting' = TRUE /\ current' = None /\ pendingSeed' = None
  BY DEF Relaunch
<1>2. DataOK'
  <2>1. relaunches' \in 0..MaxRelaunches
    BY <1>0, AuthAssumption DEF Relaunch, DataOK
  <2>2. cut' \in BOOLEAN /\ half' \subseteq Dids
    BY <1>0 DEF Relaunch, DataOK
  <2> QED
    BY <1>0, <1>1, <2>1, <2>2 DEF Relaunch, DataOK, diskVars
<1>3. TaskOK'
  BY <1>1, LaunchTasks DEF TaskOK
<1>4. ScriptInv'
  <2>1. Runs("boot", "boot") /\ Boot \in Scripts("boot")
    BY DEF Runs, Scripts
  <2> QED
    BY <1>1, <2>1, LaunchTasks DEF ScriptInv, Found
<1>5. BootInv'
  BY <1>1, LaunchTasks DEF BootInv, Place, BootPlaces, Actors
<1>6. TypeOK'
  BY <1>2, <1>3 DEF TypeOK, TaskOK, DataOK
<1> QED
  BY <1>4, <1>5, <1>6 DEF ControlInv

LEMMA ControlStart ==
    ASSUME Init
    PROVE  ControlInv
<1>1. task = Launched /\ booting = TRUE /\ current = None /\ pendingSeed = None
  BY DEF Init
<1>2. TypeOK
  <2>1. DataOK
    <3>1. {keychain, backup, id, current, bound} \subseteq Dids \cup {Legacy, None}
      BY DEF Init
    <3>2. ops \in 0..MaxOps /\ relaunches \in 0..MaxRelaunches /\ faults \in 0..MaxFaults
      BY AuthAssumption DEF Init
    <3> QED
      BY <3>1, <3>2 DEF Init, DataOK
  <2>2. TaskOK
    BY <1>1, LaunchTasks DEF TaskOK
  <2> QED
    BY <2>1, <2>2, TypeParts
<1>3. ScriptInv
  <2>1. Runs("boot", "boot") /\ Boot \in Scripts("boot")
    BY DEF Runs, Scripts
  <2> QED
    BY <1>1, <2>1, LaunchTasks DEF ScriptInv, Found
<1>4. BootInv
  BY <1>1, LaunchTasks DEF BootInv, Place, BootPlaces, Actors
<1> QED
  BY <1>2, <1>3, <1>4 DEF ControlInv

\* The steps of Next, by what they do to the tasks.
Kinds ==
    \/ \E d \in Dids : Begins(d)
    \/ \E u \in Actors : Walks(u)
    \/ \E u \in Actors : StoreThrows(u) \/ Refused(u) \/ CleanThrows(u)
    \/ ReadFlag \/ LoadLobby \/ ReadBackup \/ RestoreHandle
    \/ \E u \in Actors : ReadKeychain(u) \/ Fallback(u)
    \/ \E u \in Actors, changed \in BOOLEAN : Fetch(u, changed)
    \/ KeystoreReset \/ Relaunch

\* Some identity exists once there is an operation on one.
LEMMA NextKinds ==
    ASSUME TypeOK, Next
    PROVE  Kinds
<1>1. CASE SeedConfirmed \/ AutoBegins
  <2>1. \E d : d \in Dids
    BY <1>1 DEF SeedConfirmed, AutoBegins, TypeOK
  <2> QED
    BY <1>1, <2>1 DEF Kinds, Begins
<1>2. CASE \E d \in Dids : ScreenBegins(d) \/ RegisterBegins(d)
  BY <1>2 DEF Kinds, Begins
<1>3. CASE ReadFlag \/ LoadLobby \/ ReadBackup \/ RestoreHandle \/ KeystoreReset \/ Relaunch
  BY <1>3 DEF Kinds
<1>4. ASSUME NEW u \in Actors,
             \/ WriteStore(u) \/ ClearStore(u) \/ StoreThrows(u)
             \/ SetCurrent(u) \/ ClearCurrent(u)
             \/ CleanNative(u) \/ CleanThrows(u) \/ SetFlag(u)
             \/ Answered(u) \/ Refused(u) \/ LobbyChanges(u) \/ Bind(u) \/ RemoveWallet(u)
             \/ ShowSeed(u) \/ \E changed \in BOOLEAN : Fetch(u, changed)
             \/ ReadKeychain(u) \/ Fallback(u)
      PROVE  Kinds
  BY <1>4, Zenon DEF Kinds, Walks
<1> QED
  BY <1>1, <1>2, <1>3, <1>4, Zenon DEF Next

LEMMA ControlStep ==
    ASSUME ControlInv, [Next]_vars
    PROVE  ControlInv'
<1>1. CASE Next
  <2>1. Kinds
    BY <1>1, NextKinds DEF ControlInv
  <2> QED
    BY <2>1, BeginControl, WalkControl, FailControl, ReadControl, ResetControl, LaunchControl DEF Kinds
<1>2. CASE UNCHANGED vars
  BY <1>2 DEF vars, storeVars, diskVars, serverVars, boundVars, ControlInv, TypeOK, ScriptInv,
              BootInv, Place
<1> QED
  BY <1>1, <1>2

\* In every reachable state, torn ones included, the variables are well typed:
\* what a task has still to do is a sequence of known steps, an operation
\* that ended leaves no identity behind, and only a stored identity is
\* ever malformed (AuthContext.tsx, SecureIdentityStorage.ts).
THEOREM TypesHold == Spec => []TypeOK
<1>1. Init => ControlInv
  BY ControlStart
<1>2. ControlInv /\ [Next]_vars => ControlInv'
  BY ControlStep
<1>3. ControlInv => TypeOK
  BY DEF ControlInv
<1> QED
  BY <1>1, <1>2, <1>3, PTL DEF Spec

-----------------------------------------------------------------------------
(***************************************************************************)
(* The stored identity.  As long as nothing tore it, one task at a time is *)
(* in the middle of changing it, and the place of that task says how far   *)
(* the keychain, the backup and the DID cache have got; when no task is in *)
(* the middle, they agree.                                                 *)
(***************************************************************************)
Mid(u) ==
    \/ Place(u) \in {"backup", "id", "rmBackup", "rmId", "noCurrent", "syncBackup"}
    \/ Place(u) = "current" /\ task[u].op \notin {"demand", "update"}
    \/ Place(u) = "rmKeychain" /\ task[u].op \in {"boot", "cleanup", "migrate"}
NoMid == \A u \in Actors : ~Mid(u)

\* How far the stores have got.
Shape(u) ==
    /\ Place(u) = "backup" => keychain = task[u].d
    /\ Place(u) = "id" => keychain = task[u].d /\ backup = task[u].d
    /\ Place(u) = "current" /\ task[u].op \notin {"demand", "update"}
          => keychain = task[u].d /\ backup = task[u].d /\ id = task[u].d
    /\ Place(u) = "syncBackup" /\ task[u].op = "demand"
          => /\ current = task[u].d
             /\ ~cut => keychain = task[u].d /\ backup = task[u].d /\ id = task[u].d
    /\ Place(u) = "rmBackup" => keychain = None
    /\ Place(u) = "rmId" => keychain = None /\ backup = None
    /\ Place(u) = "noCurrent" => keychain = None /\ backup = None /\ id = None
    /\ Place(u) = "rmWallet" /\ task[u].op = "register"
          => keychain = None /\ backup = None /\ id = None

Agree == /\ ~cut => keychain = backup /\ backup = id
         /\ current # None => current = backup
BoundOK == current # None => bound = current

\* A registration, a migration until it has saved and an on-demand load until
\* it has found an identity have nobody signed in.
SignsUp(u) ==
    \/ task[u].op = "register"
    \/ task[u].op = "migrate" /\ Place(u) \notin {"clearFlag", "show"}
    \/ task[u].op = "demand" /\ Place(u) # "syncBackup"
\* An on-demand load that has read an identity.
Loads(u) == task[u].op = "demand" /\ Place(u) = "current"

StoreInv ==
    /\ \A u, v \in Actors : Mid(u) /\ Mid(v) => u = v
    /\ \A u \in Actors : Shape(u)
    /\ NoMid => Agree
    /\ BoundOK
    /\ \A u \in Actors : SignsUp(u) => current = None
    /\ \A u \in Actors : task[u].op = "update" => current = task[u].d
    /\ NoMid /\ ~cut => \A u \in Actors : Loads(u) => backup = task[u].d

\* A task that no identity step of another one may interrupt.
Busy(u) == Mid(u) \/ SignsUp(u) \/ task[u].op = "update"

\* The same, of one task while no other is busy.
AloneOK(u) ==
    /\ Shape(u) /\ BoundOK
    /\ Mid(u) \/ Agree
    /\ SignsUp(u) => current = None
    /\ task[u].op = "update" => current = task[u].d
    /\ Loads(u) /\ ~cut => backup = task[u].d

\* A busy task has an identity step ahead, so another task's identity step
\* marks the state as torn.
LEMMA BusyChanges ==
    ASSUME TaskOK, ScriptInv, NEW u \in Actors, Busy(u)
    PROVE  Changing(u)
<1>1. CASE task[u].op = "register"
  BY <1>1 DEF Changing
<1>2. CASE task[u].op # "register"
  <2>1. task[u] # Idle
    <3>1. CASE Mid(u)
      BY <3>1, AtPlace DEF Mid
    <3>2. CASE ~Mid(u)
      BY <3>2 DEF Busy, SignsUp, Loads, Idle
    <3> QED
      BY <3>1, <3>2
  <2>2. /\ Place(u) \in Range(task[u].todo)
        /\ task[u].op = "migrate" /\ Place(u) \notin {"clearFlag", "show"}
              => "id" \in Range(task[u].todo)
        /\ task[u].op = "demand" => "syncBackup" \in Range(task[u].todo)
        /\ task[u].op = "update" => "current" \in Range(task[u].todo)
    BY <2>1, PlaceOp
  <2>3. \A x \in {"backup", "id", "rmBackup", "rmId", "noCurrent", "current", "rmKeychain", "syncBackup"} :
           x \in IdentitySteps
    BY DEF IdentitySteps, StoreSteps, Store, Clear, Range
  <2>4. \E x \in IdentitySteps : x \in Range(task[u].todo)
    BY <1>2, <2>2, <2>3 DEF Busy, Mid, SignsUp, Loads
  <2> QED
    BY <2>4 DEF Changing, Doing
<1> QED
  BY <1>1, <1>2

\* What an identity step of u that does not tear may count on, and what it
\* has to show.
LEMMA AloneBefore ==
    ASSUME StoreInv, NEW u \in Actors, \A v \in Actors \ {u} : ~Busy(v)
    PROVE  AloneOK(u)
<1>1. \A v \in Actors \ {u} : ~Mid(v)
  BY DEF Busy
<1>2. Mid(u) \/ NoMid
  BY <1>1 DEF NoMid
<1>3. Loads(u) => ~Mid(u)
  BY DEF Loads, Mid
<1> QED
  BY <1>2, <1>3 DEF StoreInv, AloneOK

LEMMA AloneAfter ==
    ASSUME NEW u \in Actors, \A v \in Actors \ {u} : ~Busy(v) /\ task'[v] = task[v],
           AloneOK(u)'
    PROVE  StoreInv'
<1>1. \A v \in Actors \ {u} : /\ ~Mid(v)' /\ ~SignsUp(v)' /\ ~Loads(v)'
                              /\ task'[v].op \notin {"register", "update"}
  BY DEF Busy, Mid, SignsUp, Loads, Place
<1>2. \A v \in Actors \ {u} : Shape(v)'
  BY <1>1 DEF Shape, Mid
<1>3. \A v, w \in Actors : Mid(v)' /\ Mid(w)' => v = w
  BY <1>1
<1>4. NoMid' => Agree'
  BY DEF NoMid, AloneOK
<1> QED
  BY <1>1, <1>2, <1>3, <1>4 DEF StoreInv, AloneOK

\* A step that is no identity step moves its task between places that are
\* not in the middle.
LEMMA PlainAfter ==
    ASSUME StoreInv, NEW u \in Actors, \A v \in Actors \ {u} : task'[v] = task[v],
           ~Mid(u), ~Mid(u)', Place(u)' # "rmWallet", UNCHANGED <<keychain, backup, id, cut>>,
           \/ current' = current /\ bound' = bound
           \/ current' = None /\ \A v \in Actors \ {u} : task[v].op \notin {"demand", "update"},
           SignsUp(u)' => current' = None,
           task'[u].op = "update" => current' = task'[u].d,
           (Loads(u)' /\ NoMid /\ ~cut) => backup = task'[u].d
    PROVE  StoreInv'
<1>1. \A v \in Actors \ {u} : /\ Mid(v)' <=> Mid(v)
                              /\ SignsUp(v)' <=> SignsUp(v)
                              /\ Loads(v)' <=> Loads(v)
                              /\ Shape(v) => Shape(v)'
  <2> SUFFICES ASSUME NEW v \in Actors \ {u}
               PROVE  /\ Mid(v)' <=> Mid(v)
                      /\ SignsUp(v)' <=> SignsUp(v)
                      /\ Loads(v)' <=> Loads(v)
                      /\ Shape(v) => Shape(v)'
    OBVIOUS
  <2>1. task'[v] = task[v] /\ Place(v)' = Place(v)
    BY DEF Place
  <2>2. current' = current \/ task[v].op # "demand"
    OBVIOUS
  <2> QED
    BY <2>1, <2>2 DEF Mid, SignsUp, Loads, Shape
<1>2. Shape(u)'
  BY DEF Shape, Mid
<1>3. NoMid' => NoMid
  BY <1>1 DEF NoMid
<1>4. \A v, w \in Actors : Mid(v)' /\ Mid(w)' => v = w
  BY <1>1 DEF StoreInv
<1>5. NoMid' => Agree'
  BY <1>3 DEF StoreInv, Agree
<1>6. BoundOK'
  BY DEF StoreInv, BoundOK
<1>7. \A v \in Actors : SignsUp(v)' => current' = None
  BY <1>1 DEF StoreInv
<1>8. NoMid' /\ ~cut' => \A v \in Actors : Loads(v)' => backup' = task'[v].d
  BY <1>1, <1>3 DEF StoreInv
<1>9. \A v \in Actors : task'[v].op = "update" => current' = task'[v].d
  BY DEF StoreInv
<1> QED
  BY <1>1, <1>2, <1>4, <1>5, <1>6, <1>7, <1>8, <1>9 DEF StoreInv

\* Where the identity steps lead.
LEMMA IdentityFlow ==
    ASSUME NEW op, NEW x, NEW y, Follows(op, x, y)
    PROVE  /\ x = "keychain" => y = "backup"
           /\ x = "backup" => y = "id"
           /\ x = "id" => \/ y = "current" /\ op \notin {"register", "migrate"}
                          \/ y = "bind" /\ op = "register"
                          \/ y = "clearFlag" /\ op = "migrate"
           /\ x = "syncBackup" => op = "demand" /\ y = "end"
           /\ x = "dropId" => y = "rmKeychain" /\ op \in {"boot", "cleanup", "migrate"}
           /\ x = "rmKeychain" => y = "rmBackup" /\ op \notin {"demand", "update"}
           /\ x = "rmBackup" => y = "rmId" /\ op \notin {"demand", "update"}
           /\ x = "rmId" => \/ y = "noCurrent" /\ op \notin {"register", "migrate", "demand", "update"}
                            \/ y = "rmWallet" /\ op = "register"
                            \/ y = "clearSeed" /\ op = "migrate"
           /\ x = "current" => \/ op = "demand" /\ y = "syncBackup"
                               \/ op \notin {"demand", "register", "migrate"} /\ y \in {"fetch", "end"}
           /\ x = "noCurrent" => op \in {"signOut", "boot", "cleanup"} /\ y \in {"rmLobby", "end"}
           /\ x = "bind" => op = "register" /\ y = "complete"
           /\ x = "unbind" => op = "register" /\ y = "rmKeychain"
<1> USE DEF Follows, StoreFlow, ClearFlow
<1>1. /\ x = "keychain" => y = "backup"
      /\ x = "backup" => y = "id"
  OBVIOUS
<1>2. x = "id" => \/ y = "current" /\ op \notin {"register", "migrate"}
                  \/ y = "bind" /\ op = "register"
                  \/ y = "clearFlag" /\ op = "migrate"
  OBVIOUS
<1>3. /\ x = "syncBackup" => op = "demand" /\ y = "end"
      /\ x = "dropId" => y = "rmKeychain" /\ op \in {"boot", "cleanup", "migrate"}
      /\ x = "rmKeychain" => y = "rmBackup" /\ op \notin {"demand", "update"}
      /\ x = "rmBackup" => y = "rmId" /\ op \notin {"demand", "update"}
  OBVIOUS
<1>4. x = "rmId" => \/ y = "noCurrent" /\ op \notin {"register", "migrate", "demand", "update"}
                    \/ y = "rmWallet" /\ op = "register"
                    \/ y = "clearSeed" /\ op = "migrate"
  OBVIOUS
<1>5. x = "current" => \/ op = "demand" /\ y = "syncBackup"
                       \/ op \notin {"demand", "register", "migrate"} /\ y \in {"fetch", "end"}
  OBVIOUS
<1>6. /\ x = "noCurrent" => op \in {"signOut", "boot", "cleanup"} /\ y \in {"rmLobby", "end"}
      /\ x = "bind" => op = "register" /\ y = "complete"
      /\ x = "unbind" => op = "register" /\ y = "rmKeychain"
  OBVIOUS
<1> QED
  BY <1>1, <1>2, <1>3, <1>4, <1>5, <1>6

\* Where the others lead.
PlainPlaces == {"recover", "migrate", "wallet", "readId", "begin", "create", "complete", "login",
                "claim", "saveLobby", "rmLobby", "rmWallet", "show", "setFlag", "clearFlag",
                "native", "fetch", "clearSeed", "restored", "reregister"}

LEMMA PlainFlow ==
    ASSUME NEW op, NEW x \in PlainPlaces, NEW y, Follows(op, x, y)
    PROVE  /\ op \notin {"demand", "update"}
           /\ y \in {"keychain", "complete", "login", "saveLobby", "wallet", "create", "show",
                     "native", "dropId", "restored", "end"}
           /\ op = "migrate" /\ x \in {"clearFlag", "show"} => y \in {"show", "end"}
           /\ x = "rmWallet" => op = "register"
<1> USE DEF Follows, StoreFlow, ClearFlow, PlainPlaces
<1>1. op # "demand"
  OBVIOUS
<1>2. op # "update"
  OBVIOUS
<1>3. y \in {"keychain", "complete", "login", "saveLobby", "wallet", "create", "show",
             "native", "dropId", "restored", "end"}
  OBVIOUS
<1>4. op = "migrate" /\ x \in {"clearFlag", "show"} => y \in {"show", "end"}
  OBVIOUS
<1>5. x = "rmWallet" => op = "register"
  OBVIOUS
<1> QED
  BY <1>1, <1>2, <1>3, <1>4, <1>5

\* An identity step that does not tear finds no other task busy.
LEMMA OverlapsAlone ==
    ASSUME TaskOK, ScriptInv, torn => torn', NEW u \in Actors, Overlaps(u), ~torn'
    PROVE  ~torn /\ \A v \in Actors \ {u} : ~Busy(v)
<1>1. \A v \in Actors \ {u} : ~Changing(v)
  BY DEF Overlaps
<1> QED
  BY <1>1, BusyChanges

IdentityStep(u) ==
    WriteStore(u) \/ ClearStore(u) \/ SetCurrent(u) \/ ClearCurrent(u) \/ Bind(u)

\* Identity steps keep the shape of the stores.
LEMMA IdentityStepStore ==
    ASSUME ControlInv, ~torn => StoreInv, NEW u \in Actors, IdentityStep(u), ~torn'
    PROVE  StoreInv'
<1>0. TypeOK /\ TaskOK /\ ScriptInv
  BY TypeParts DEF ControlInv
<1>1. Overlaps(u)
  BY DEF IdentityStep, WriteStore, ClearStore, SetCurrent, ClearCurrent, Bind
<1>2. ~torn /\ \A v \in Actors \ {u} : ~Busy(v)
  BY <1>0, <1>1, OverlapsAlone DEF Overlaps
<1>3. AloneOK(u)
  BY <1>2, AloneBefore
<1>4. task[u] # Idle /\ \E y : Follows(task[u].op, Place(u), y) /\ Moves(u, y)
  BY <1>0, WalkMoves DEF IdentityStep, Walks
<1>5. PICK y : Follows(task[u].op, Place(u), y) /\ Moves(u, y)
  BY <1>4
<1>6. \A x \in Steps : At(u, x) <=> Place(u) = x
  BY <1>0, AtPlace
<1>7. /\ Place(u)' = y
      /\ y # "end" => task'[u].op = task[u].op /\ task'[u].d = task[u].d
      /\ y = "end" => task'[u].op = "none"
  BY <1>5 DEF Moves, Idle
<1> DEFINE x == Place(u)
<1> DEFINE op == task[u].op
<1>8. Follows(op, x, y)
  BY <1>5
<1>9. AloneOK(u)'
  <2>1. CASE WriteStore(u)
    <3>0. current' = current /\ bound' = bound
      BY <2>1 DEF WriteStore
    <3>1. CASE x = "keychain"
      <4>1. keychain' = task[u].d /\ y = "backup"
        BY <1>6, <1>8, <2>1, <3>1, IdentityFlow, StepNames DEF WriteStore
      <4> QED
        BY <1>3, <1>7, <3>0, <3>1, <4>1 DEF AloneOK, Shape, BoundOK, Mid, SignsUp, Loads
    <3>2. CASE x = "backup"
      <4>1. keychain' = keychain /\ backup' = task[u].d /\ y = "id"
        BY <1>6, <1>8, <2>1, <3>2, IdentityFlow, StepNames DEF WriteStore
      <4> QED
        BY <1>3, <1>7, <3>0, <3>2, <4>1 DEF AloneOK, Shape, BoundOK, Mid, SignsUp, Loads
    <3>3. CASE x = "id"
      <4>1. keychain' = keychain /\ backup' = backup /\ id' = task[u].d
        BY <1>6, <2>1, <3>3, StepNames DEF WriteStore
      <4>2. \/ y = "current" /\ op \notin {"register", "migrate"}
            \/ y = "bind" /\ op = "register"
            \/ y = "clearFlag" /\ op = "migrate"
        BY <1>8, <3>3, IdentityFlow
      <4>3. /\ keychain' = task[u].d /\ backup' = task[u].d
            /\ op \in {"register", "migrate", "demand"} => current = None
            /\ op = "update" => current = task[u].d
        BY <1>3, <3>3, <4>1 DEF AloneOK, Shape, SignsUp
      <4> QED
        BY <1>3, <1>7, <3>0, <4>1, <4>2, <4>3
           DEF AloneOK, Shape, BoundOK, Mid, SignsUp, Loads, Agree
    <3>4. CASE x = "syncBackup"
      <4>1. keychain' = keychain /\ backup' = task[u].d /\ id' = id /\ cut' = cut /\ op = "demand" /\ y = "end"
        BY <1>6, <1>8, <2>1, <3>4, IdentityFlow, StepNames DEF WriteStore
      <4>2. current = task[u].d /\ (~cut => keychain = task[u].d /\ id = task[u].d)
        BY <1>3, <3>4, <4>1 DEF AloneOK, Shape
      <4> QED
        BY <1>3, <1>7, <3>0, <4>1, <4>2 DEF AloneOK, Shape, BoundOK, Mid, SignsUp, Loads, Agree
    <3> QED
      BY <1>6, <2>1, <3>1, <3>2, <3>3, <3>4, StepNames DEF WriteStore
  <2>2. CASE ClearStore(u)
    <3>0. current' = current /\ bound' = bound
      BY <2>2 DEF ClearStore
    <3>1. CASE x = "rmKeychain"
      <4>1. keychain' = None /\ y = "rmBackup" /\ op \notin {"demand", "update"}
        BY <1>6, <1>8, <2>2, <3>1, IdentityFlow, StepNames DEF ClearStore
      <4> QED
        BY <1>3, <1>7, <3>0, <3>1, <4>1 DEF AloneOK, Shape, BoundOK, Mid, SignsUp, Loads
    <3>2. CASE x = "rmBackup"
      <4>1. keychain' = keychain /\ backup' = None /\ y = "rmId" /\ op \notin {"demand", "update"}
        BY <1>6, <1>8, <2>2, <3>2, IdentityFlow, StepNames DEF ClearStore
      <4> QED
        BY <1>3, <1>7, <3>0, <3>2, <4>1 DEF AloneOK, Shape, BoundOK, Mid, SignsUp, Loads
    <3>3. CASE x = "rmId"
      <4>1. keychain' = keychain /\ backup' = backup /\ id' = None
        BY <1>6, <2>2, <3>3, StepNames DEF ClearStore
      <4>2. \/ y = "noCurrent" /\ op \notin {"register", "migrate", "demand", "update"}
            \/ y = "rmWallet" /\ op = "register"
            \/ y = "clearSeed" /\ op = "migrate"
        BY <1>8, <3>3, IdentityFlow
      <4>3. keychain' = None /\ backup' = None /\ (op \in {"register", "migrate"} => current = None)
        BY <1>3, <3>3, <4>1 DEF AloneOK, Shape, SignsUp
      <4> QED
        BY <1>3, <1>7, <3>0, <4>1, <4>2, <4>3
           DEF AloneOK, Shape, BoundOK, Mid, SignsUp, Loads, Agree
    <3>4. CASE x = "dropId"
      <4>1. y = "rmKeychain" /\ op \in {"boot", "cleanup", "migrate"}
        BY <1>8, <3>4, IdentityFlow
      <4> QED
        BY <1>3, <1>7, <3>0, <3>4, <4>1 DEF AloneOK, Shape, BoundOK, Mid, SignsUp, Loads
    <3> QED
      BY <1>6, <2>2, <3>1, <3>2, <3>3, <3>4, StepNames DEF ClearStore
  <2>3. CASE SetCurrent(u)
    <3>1. /\ x = "current" /\ current' = task[u].d
          /\ bound' = IF current # task[u].d THEN task[u].d ELSE bound
          /\ keychain' = keychain /\ backup' = backup /\ id' = id /\ cut' = cut
      BY <1>6, <2>3, StepNames DEF SetCurrent, storeVars
    <3>2. BoundOK'
      BY <1>3, <3>1 DEF AloneOK, BoundOK
    <3>3. \/ op = "demand" /\ y = "syncBackup"
          \/ op \notin {"demand", "register", "migrate"} /\ y \in {"fetch", "end"}
      BY <1>8, <3>1, IdentityFlow
    <3>4. CASE op = "demand" /\ y = "syncBackup"
      <4>1. Agree /\ (~cut => backup = task[u].d)
        BY <1>3, <3>1, <3>4 DEF AloneOK, Loads, Mid
      <4> QED
        BY <1>7, <3>1, <3>2, <3>4, <4>1 DEF AloneOK, Shape, Mid, SignsUp, Loads, Agree
    <3>6. CASE op = "update" /\ y \in {"fetch", "end"}
      <4>1. Agree /\ current = task[u].d
        BY <1>3, <3>1, <3>6 DEF AloneOK, Mid
      <4> QED
        BY <1>7, <3>1, <3>2, <3>6, <4>1 DEF AloneOK, Shape, Mid, SignsUp, Loads, Agree
    <3>5. CASE op \notin {"demand", "update", "register", "migrate"} /\ y \in {"fetch", "end"}
      <4>1. keychain = task[u].d /\ backup = task[u].d /\ id = task[u].d
        BY <1>3, <3>1, <3>5 DEF AloneOK, Shape
      <4> QED
        BY <1>7, <3>1, <3>2, <3>5, <4>1 DEF AloneOK, Shape, Mid, SignsUp, Loads, Agree
    <3> QED
      BY <3>3, <3>4, <3>5, <3>6
  <2>4. CASE ClearCurrent(u)
    <3>1. /\ x = "noCurrent" /\ current' = None
          /\ keychain' = keychain /\ backup' = backup /\ id' = id /\ cut' = cut
      BY <1>6, <2>4, StepNames DEF ClearCurrent, storeVars
    <3>2. op \in {"signOut", "boot", "cleanup"} /\ y \in {"rmLobby", "end"}
      BY <1>8, <3>1, IdentityFlow
    <3>3. keychain = None /\ backup = None /\ id = None
      BY <1>3, <3>1 DEF AloneOK, Shape
    <3> QED
      BY <1>7, <3>1, <3>2, <3>3 DEF AloneOK, Shape, BoundOK, Mid, SignsUp, Loads, Agree
  <2>5. CASE Bind(u)
    <3>1. /\ x \in {"bind", "unbind"} /\ current' = current
          /\ keychain' = keychain /\ backup' = backup /\ id' = id /\ cut' = cut
      BY <1>6, <2>5, StepNames DEF Bind, storeVars
    <3>2. op = "register" /\ y \in {"complete", "rmKeychain"}
      BY <1>8, <3>1, IdentityFlow
    <3>3. current = None /\ Agree
      BY <1>3, <3>1, <3>2 DEF AloneOK, SignsUp, Mid
    <3> QED
      BY <1>7, <3>1, <3>2, <3>3 DEF AloneOK, Shape, BoundOK, Mid, SignsUp, Loads, Agree
  <2> QED
    BY <2>1, <2>2, <2>3, <2>4, <2>5 DEF IdentityStep
<1> QED
  BY <1>2, <1>5, <1>9, AloneAfter DEF Moves

PlainWalk(u) ==
    \/ CleanNative(u) \/ SetFlag(u) \/ Answered(u) \/ LobbyChanges(u)
    \/ RemoveWallet(u) \/ ShowSeed(u)

\* The steps of one task that are no identity steps.
LEMMA PlainWalkStore ==
    ASSUME ControlInv, StoreInv, NEW u \in Actors, PlainWalk(u)
    PROVE  StoreInv'
<1>0. TypeOK /\ TaskOK /\ ScriptInv
  BY TypeParts DEF ControlInv
<1>1. PICK y : Follows(task[u].op, Place(u), y) /\ Moves(u, y)
  BY <1>0, WalkMoves DEF PlainWalk, Walks
<1>2. \A x \in Steps : At(u, x) <=> Place(u) = x
  BY <1>0, AtPlace
<1>3. Place(u) \in PlainPlaces
  BY <1>2, StepNames
     DEF PlainWalk, PlainPlaces, CleanNative, SetFlag, Answered, Calls, LobbyChanges, RemoveWallet, ShowSeed
<1>4. /\ Place(u)' = y
      /\ y # "end" => task'[u].op = task[u].op
      /\ y = "end" => task'[u].op = "none"
  BY <1>1 DEF Moves, Idle
<1>6. /\ task[u].op \notin {"demand", "update"}
      /\ y \in {"keychain", "complete", "login", "saveLobby", "wallet", "create", "show",
                "native", "dropId", "restored", "end"}
      /\ task[u].op = "migrate" /\ Place(u) \in {"clearFlag", "show"} => y \in {"show", "end"}
      /\ Place(u) = "rmWallet" => task[u].op = "register"
  BY <1>1, <1>3, PlainFlow
<1>5. UNCHANGED <<keychain, backup, id, cut>> /\ current' = current /\ bound' = bound
  <2>1. CASE RemoveWallet(u)
    <3>1. Place(u) = "rmWallet"
      BY <1>2, <2>1, StepNames DEF RemoveWallet
    <3>2. id = None
      BY <1>6, <3>1 DEF StoreInv, Shape
    <3> QED
      BY <2>1, <3>2 DEF RemoveWallet
  <2>2. CASE ~RemoveWallet(u)
    BY <2>2 DEF PlainWalk, CleanNative, SetFlag, Answered, LobbyChanges, ShowSeed, storeVars
  <2> QED
    BY <2>1, <2>2
<1>7. ~Mid(u)
  BY <1>3 DEF Mid, PlainPlaces
<1>8. ~Mid(u)' /\ ~Loads(u)' /\ Place(u)' # "rmWallet" /\ task'[u].op # "update"
  BY <1>4, <1>6 DEF Mid, Loads
<1>9. SignsUp(u)' => SignsUp(u)
  BY <1>4, <1>6 DEF SignsUp
<1>10. SignsUp(u)' => current' = None
  BY <1>5, <1>9 DEF StoreInv
<1>11. \A v \in Actors \ {u} : task'[v] = task[v]
  BY <1>1 DEF Moves
<1> QED
  BY <1>5, <1>7, <1>8, <1>10, <1>11, PlainAfter

\* A native clean-up that throws ends its operation before it wiped anything.
LEMMA CleanThrowsStore ==
    ASSUME ControlInv, StoreInv, NEW u \in Actors, CleanThrows(u)
    PROVE  StoreInv'
<1>0. TypeOK /\ TaskOK /\ ScriptInv
  BY TypeParts DEF ControlInv
<1>1. Place(u) = "native" /\ Moves(u, "end")
  BY <1>0, AtPlace, StepNames, CleanThrowsMoves DEF CleanThrows
<1>2. /\ Place(u)' = "end" /\ task'[u].op = "none"
      /\ \A v \in Actors \ {u} : task'[v] = task[v]
  BY <1>1 DEF Moves, Idle
<1>3. UNCHANGED <<keychain, backup, id, cut>> /\ current' = current /\ bound' = bound
  BY DEF CleanThrows, storeVars
<1>4. ~Mid(u) /\ ~Mid(u)' /\ ~Loads(u)' /\ ~SignsUp(u)'
  BY <1>1, <1>2 DEF Mid, Loads, SignsUp
<1> QED
  BY <1>2, <1>3, <1>4, PlainAfter

LEMMA RefusedStore ==
    ASSUME ControlInv, StoreInv, NEW u \in Actors, Refused(u)
    PROVE  StoreInv'
<1>0. TypeOK /\ TaskOK /\ ScriptInv
  BY TypeParts DEF ControlInv
<1> DEFINE y == AfterRefusal(u)
<1>1. task[u] # Idle /\ Place(u) \in Calls \cup {"saveLobby"} /\ Moves(u, y)
  BY <1>0, RefusedMoves
<1>10. Runs(u, task[u].op) /\ \E z : Follows(task[u].op, Place(u), z)
  BY <1>0, <1>1, PlaceOp
<1>2. /\ y \in {"unbind", "keychain", "end"} /\ (y = "unbind" => task[u].op = "register")
      /\ y = "keychain" => task[u].op = "migrate" /\ Place(u) = "restored"
  BY <1>10 DEF AfterRefusal, Follows, StoreFlow, ClearFlow
<1> HIDE DEF y
<1>3. /\ Place(u)' = y
      /\ y # "end" => task'[u].op = task[u].op
      /\ y = "end" => task'[u].op = "none"
  BY <1>1 DEF Moves, Idle
<1>4. /\ UNCHANGED <<keychain, backup, id, cut>>
      /\ \/ current' = current /\ bound' = bound
         \/ current' = None /\ At(u, "recover")
  BY DEF Refused, storeVars
<1>11. ASSUME At(u, "recover") PROVE \A v \in Actors \ {u} : task[v].op \notin {"demand", "update"}
  <2>1. Place(u) = "recover"
    BY <1>0, <1>11, AtPlace, StepNames
  <2>2. u = "screen"
    BY <1>10, <2>1 DEF Follows, StoreFlow, ClearFlow, Runs
  <2>3. \A v \in Actors \ {u} : task[v] = Idle \/ Runs(v, task[v].op)
    BY <1>0 DEF ScriptInv
  <2> QED
    BY <2>2, <2>3 DEF Runs, Idle
<1>5. ~Mid(u)
  BY <1>1 DEF Mid, Calls
<1>6. ~Mid(u)' /\ ~Loads(u)' /\ Place(u)' # "rmWallet" /\ task'[u].op # "update"
  BY <1>2, <1>3 DEF Mid, Loads
<1>7. SignsUp(u)' => SignsUp(u)
  BY <1>2, <1>3 DEF SignsUp
<1>8. SignsUp(u)' => current' = None
  BY <1>4, <1>7 DEF StoreInv
<1>9. \A v \in Actors \ {u} : task'[v] = task[v]
  BY <1>1 DEF Moves
<1> QED
  BY <1>4, <1>5, <1>6, <1>8, <1>9, <1>11, PlainAfter

LEMMA ReadStore ==
    ASSUME ControlInv, StoreInv,
           \/ ReadFlag \/ LoadLobby \/ RestoreHandle
           \/ \E u \in Actors : ReadKeychain(u) \/ Fallback(u)
           \/ \E u \in Actors, changed \in BOOLEAN : Fetch(u, changed)
    PROVE  StoreInv'
<1>0. TypeOK /\ TaskOK /\ ScriptInv /\ "boot" \in Actors
  BY TypeParts DEF ControlInv, Actors
<1>1. CASE ReadFlag \/ LoadLobby
  <2>1. /\ task["boot"] # Idle /\ Place("boot") \in {"readFlag", "loadLobby"}
        /\ \E y \in {"loadLobby", "native", "readBackup"} : Moves("boot", y)
    BY <1>0, <1>1, ReadFlagMoves
  <2>2. PICK y \in {"loadLobby", "native", "readBackup"} : Moves("boot", y)
    BY <2>1
  <2>3. task["boot"].op = "boot"
    BY <1>0, <2>1, PlaceOp DEF Runs
  <2>4. Place("boot")' = y /\ task'["boot"].op = "boot"
    BY <2>2, <2>3 DEF Moves
  <2>5. UNCHANGED <<keychain, backup, id, cut>> /\ current' = current /\ bound' = bound
    BY <1>1 DEF ReadFlag, LoadLobby, storeVars
  <2>6. ~Mid("boot") /\ ~Mid("boot")' /\ ~Loads("boot")' /\ ~SignsUp("boot")'
    BY <2>1, <2>4 DEF Mid, Loads, SignsUp
  <2>7. \A v \in Actors \ {"boot"} : task'[v] = task[v]
    BY <2>2 DEF Moves
  <2> QED
    BY <1>0, <2>2, <2>4, <2>5, <2>6, <2>7, PlainAfter
<1>2. ASSUME NEW u \in Actors, ReadKeychain(u) \/ Fallback(u) PROVE StoreInv'
  <2>1. /\ task[u].op = "demand" /\ Place(u) \in {"readKeychain", "fallback"}
        /\ \A v \in Actors \ {u} : task'[v] = task[v]
        /\ \/ task'[u] = Idle /\ Place(u)' = "end"
           \/ /\ task'[u].op = "demand" /\ Place(u)' = "current"
              /\ task'[u].d \in {keychain, backup}
           \/ task'[u].op = "demand" /\ Place(u)' \in {"fallback", "keychain"}
    BY <1>0, <1>2, ReadKeychainMoves, FallbackMoves
  <2>2. UNCHANGED <<keychain, backup, id, cut>> /\ current' = current /\ bound' = bound
    BY <1>2 DEF ReadKeychain, Fallback, storeVars
  <2>3. ~Mid(u) /\ ~Mid(u)' /\ SignsUp(u) /\ Place(u)' # "rmWallet" /\ task'[u].op # "update"
    BY <2>1 DEF Mid, SignsUp, Idle
  <2>6. current' = None
    BY <2>2, <2>3 DEF StoreInv
  <2>4. Loads(u)' => task'[u].d \in {keychain, backup}
    BY <2>1 DEF Loads, Idle
  <2>5. Loads(u)' /\ NoMid /\ ~cut => backup = task'[u].d
    BY <2>4 DEF StoreInv, Agree
  <2> QED
    BY <2>1, <2>2, <2>3, <2>5, <2>6, PlainAfter
<1>3. ASSUME NEW u \in Actors, NEW changed \in BOOLEAN, Fetch(u, changed) PROVE StoreInv'
  <2>1. /\ Place(u) = "fetch" /\ task[u].op \in {"boot", "recover", "signIn", "seed", "rereg"}
        /\ \E y \in {"keychain", "end"} : Moves(u, y)
    BY <1>0, <1>3, FetchMoves
  <2>2. PICK y \in {"keychain", "end"} : Moves(u, y)
    BY <2>1
  <2>3. Place(u)' = y /\ task'[u].op \in {"none", "boot", "recover", "signIn", "seed", "rereg"}
    BY <2>1, <2>2 DEF Moves, Idle
  <2>4. UNCHANGED <<keychain, backup, id, cut>> /\ current' = current /\ bound' = bound
    BY <1>3 DEF Fetch, storeVars
  <2>5. ~Mid(u) /\ ~Mid(u)' /\ ~Loads(u)' /\ ~SignsUp(u)'
    BY <2>1, <2>3 DEF Mid, Loads, SignsUp
  <2>6. \A v \in Actors \ {u} : task'[v] = task[v]
    BY <2>2 DEF Moves
  <2> QED
    BY <2>2, <2>3, <2>4, <2>5, <2>6, PlainAfter
<1>4. CASE RestoreHandle
  <2>1. /\ Place("boot") = "handle" /\ task'["boot"].op = "boot" /\ Place("boot")' = "fetch"
        /\ \A v \in Actors \ {"boot"} : task'[v] = task[v]
    BY <1>0, <1>4, RestoreHandleMoves
  <2>2. UNCHANGED <<keychain, backup, id, cut>> /\ current' = current /\ bound' = bound
    BY <1>4 DEF RestoreHandle, storeVars
  <2>3. ~Mid("boot") /\ ~Mid("boot")' /\ ~Loads("boot")' /\ ~SignsUp("boot")'
    BY <2>1 DEF Mid, Loads, SignsUp
  <2> QED
    BY <1>0, <2>1, <2>2, <2>3, PlainAfter
<1> QED
  BY <1>1, <1>2, <1>3, <1>4

\* The bootstrap restores the identity while no other task runs.
LEMMA ReadBackupStore ==
    ASSUME ControlInv, StoreInv, ReadBackup
    PROVE  StoreInv'
<1>0. TypeOK /\ TaskOK /\ ScriptInv /\ BootInv /\ "boot" \in Actors
  BY TypeParts DEF ControlInv, Actors
<1>1. /\ Place("boot") = "readBackup" /\ task["boot"].op = "boot"
      /\ \A v \in Actors \ {"boot"} : task'[v] = task[v]
      /\ \/ /\ current' = backup /\ bound' = backup
            /\ task'["boot"].op = "boot" /\ Place("boot")' = "handle"
         \/ UNCHANGED <<current, bound>> /\ task'["boot"] = Idle /\ Place("boot")' = "end"
         \/ UNCHANGED <<current, bound>> /\ task'["boot"].op = "boot" /\ Place("boot")' = "rmKeychain"
  BY <1>0, ReadBackupMoves
<1>2. booting /\ current = None /\ \A v \in Actors \ {"boot"} : task[v] = Idle
  BY <1>0, <1>1 DEF BootInv, OpenPlaces, TaskOK, Actors
<1>3. \A v \in Actors \ {"boot"} : ~Busy(v)
  BY <1>2 DEF Busy, Mid, SignsUp, Loads, Place, First, Idle
<1>4. AloneOK("boot")
  BY <1>0, <1>3, AloneBefore
<1>5. Agree
  BY <1>1, <1>4 DEF AloneOK, Mid
<1>6. /\ keychain' = keychain /\ backup' = backup /\ id' = id /\ cut' = cut
      /\ (current' = backup /\ bound' = backup) \/ current' = None
  BY <1>1, <1>2 DEF ReadBackup, storeVars
<1>7. BoundOK'
  BY <1>0, <1>6 DEF BoundOK
<1>8. Place("boot")' \in {"handle", "end", "rmKeychain"} /\ task'["boot"].op \in {"boot", "none"}
  BY <1>1 DEF Idle
<1>9. Shape("boot")' /\ ~SignsUp("boot")' /\ ~Loads("boot")'
  BY <1>8 DEF Shape, SignsUp, Loads
<1>10. Agree'
  BY <1>5, <1>6 DEF Agree
<1>11. AloneOK("boot")'
  BY <1>7, <1>8, <1>9, <1>10 DEF AloneOK
<1> QED
  BY <1>0, <1>1, <1>3, <1>11, AloneAfter

LEMMA BeginStore ==
    ASSUME ControlInv, StoreInv, NEW d \in Dids, Begins(d)
    PROVE  StoreInv'
<1>0. TypeOK /\ TaskOK /\ ScriptInv /\ "screen" \in Actors /\ "seed" \in Actors /\ "auto" \in Actors
  BY TypeParts DEF ControlInv, Actors
<1>1. PICK w, b, e, P : Begin(w, b, e, P)
  BY <1>0, BeginsOne
<1>2. UNCHANGED <<keychain, backup, id, cut>> /\ current' = current /\ bound' = bound
  BY <1>1 DEF Begin, storeVars
<1>3. ASSUME NEW u \in Actors, NEW op, NEW i, NEW y, Starts(u, op, i, y),
             \/ /\ y \in {"recover", "login", "readId", "keychain", "setFlag", "claim", "reregister"}
                /\ op \notin {"register", "migrate", "demand", "update"}
             \/ /\ y \in {"migrate", "begin", "readKeychain"} /\ op \in {"register", "migrate", "demand"}
                /\ current = None
             \/ y = "rmKeychain" /\ op = "signOut"
             \/ y \in {"keychain", "current"} /\ op = "update" /\ i = current
      PROVE  StoreInv'
  <2>1. /\ task[u] = Idle /\ \A v \in Actors \ {u} : task'[v] = task[v]
        /\ task'[u].op = op /\ task'[u].d = i /\ Place(u)' = y
    BY <1>3 DEF Starts
  <2>2. ~Mid(u)
    BY <1>0, <2>1, AtPlace DEF Mid
  <2>3. ~Mid(u)' /\ ~Loads(u)' /\ Place(u)' # "rmWallet"
    BY <1>3, <2>1 DEF Mid, Loads
  <2>5. task'[u].op = "update" => current' = task'[u].d
    BY <1>2, <1>3, <2>1
  <2>4. SignsUp(u)' => current' = None
    BY <1>2, <1>3, <2>1 DEF SignsUp
  <2> QED
    BY <1>2, <2>1, <2>2, <2>3, <2>4, <2>5, PlainAfter
<1>4. StartsOne(d)
  BY <1>0, BeginsOne
<1>5. CASE \/ Starts("screen", "recover", d, "recover")
           \/ Starts("screen", "signIn", d, "login")
           \/ Starts("screen", "signIn", d, "readId")
  BY <1>0, <1>3, <1>5
<1>6. CASE /\ current = None
           /\ \/ Starts("screen", "migrate", d, "migrate")
              \/ Starts("screen", "register", d, "begin")
              \/ Starts("screen", "demand", None, "readKeychain")
  BY <1>0, <1>3, <1>6
<1>7. CASE \/ Starts("screen", "signOut", current, "rmKeychain")
           \/ \E y \in {"keychain", "current"} : Starts("screen", "update", current, y)
  BY <1>0, <1>3, <1>7
<1>8. CASE \/ Starts("seed", "seed", pendingSeed, "keychain")
           \/ Starts("auto", "cleanup", current, "setFlag")
           \/ Starts("auto", "claim", current, "claim")
           \/ Starts("auto", "rereg", current, "reregister")
  BY <1>0, <1>3, <1>8
<1> QED
  BY <1>4, <1>5, <1>6, <1>7, <1>8, Zenon DEF StartsOne

\* A launch that cut no save or wipe short finds the stores in agreement.
LEMMA LaunchStore ==
    ASSUME ControlInv, StoreInv, Relaunch
    PROVE  StoreInv'
<1>0. TypeOK /\ TaskOK /\ ScriptInv
  BY TypeParts DEF ControlInv
<1>1. /\ task' = Launched /\ current' = None
      /\ keychain' = keychain /\ backup' = backup /\ id' = id
      /\ cut' = (cut \/ \E u \in Actors : Between(u))
  BY DEF Relaunch
<1>2. ASSUME ~cut' PROVE keychain = backup /\ backup = id
  <2>1. CASE NoMid
    BY <1>1, <1>2, <2>1 DEF StoreInv, Agree
  <2>2. ASSUME NEW u \in Actors, Mid(u) PROVE keychain = backup /\ backup = id
    <3>1. \A x \in Steps : At(u, x) <=> Place(u) = x
      BY <1>0, AtPlace
    <3>2. Place(u) \notin {"backup", "id", "rmKeychain", "rmBackup", "rmId"}
      BY <1>1, <1>2, <3>1, StepNames DEF Between
    <3>3. Place(u) = "syncBackup" => task[u].op = "demand"
      <4>1. CASE Place(u) = "syncBackup"
        <5>1. task[u] # Idle
          BY <1>0, <4>1, AtPlace
        <5>2. \E y : Follows(task[u].op, Place(u), y)
          BY <1>0, <5>1, PlaceOp
        <5> QED
          BY <4>1, <5>2 DEF Follows, StoreFlow, ClearFlow
      <4> QED
        BY <4>1
    <3>4. Shape(u) /\ ~cut
      BY <1>1, <1>2 DEF StoreInv
    <3> QED
      BY <2>2, <3>2, <3>3, <3>4 DEF Mid, Shape
  <2> QED
    BY <2>1, <2>2 DEF NoMid
<1>5. \A u \in Actors : Place(u)' \in {"readFlag", "end"} /\ task'[u].op \in {"boot", "none"}
  BY <1>1, LaunchTasks DEF Place, First, Idle
<1>6. \A u \in Actors : ~Mid(u)' /\ ~SignsUp(u)' /\ ~Loads(u)' /\ Shape(u)' /\ task'[u].op # "update"
  BY <1>5 DEF Mid, SignsUp, Loads, Shape
<1>7. Agree' /\ BoundOK'
  BY <1>1, <1>2 DEF Agree, BoundOK
<1> QED
  BY <1>6, <1>7 DEF StoreInv

\* A reset of the Keystore changes what can be read, not what is stored.
LEMMA ResetStore ==
    ASSUME StoreInv, KeystoreReset
    PROVE  StoreInv'
<1>1. UNCHANGED <<keychain, backup, id, cut, current, bound, task>>
  BY DEF KeystoreReset
<1> QED
  BY <1>1 DEF StoreInv, Mid, NoMid, Shape, Agree, BoundOK, SignsUp, Loads, Place

LEMMA StoreStart ==
    ASSUME Init
    PROVE  StoreInv
<1>1. task = Launched /\ current = None /\ keychain = backup /\ backup = id
  BY DEF Init
<1>2. \A u \in Actors : Place(u) \in {"readFlag", "end"} /\ task[u].op \in {"boot", "none"}
  BY <1>1, LaunchTasks DEF Place, First, Idle
<1>3. \A u \in Actors : ~Mid(u) /\ ~SignsUp(u) /\ ~Loads(u) /\ Shape(u) /\ task[u].op # "update"
  BY <1>2 DEF Mid, SignsUp, Loads, Shape
<1>4. Agree /\ BoundOK
  BY <1>1 DEF Agree, BoundOK
<1> QED
  BY <1>3, <1>4 DEF StoreInv

WholeInv == ControlInv /\ (~torn => StoreInv)

\* What is torn stays torn.
LEMMA Tears ==
    ASSUME Next, torn
    PROVE  torn'
<1>1. ASSUME NEW u \in Actors, IdentityStep(u) PROVE torn'
  BY <1>1 DEF IdentityStep, WriteStore, ClearStore, SetCurrent, ClearCurrent, Bind, Overlaps
<1>2. ASSUME NEW u \in Actors, StoreThrows(u) \/ CleanThrows(u) PROVE torn'
  BY <1>2 DEF StoreThrows, CleanThrows
<1>3. ASSUME NEW u \in Actors, PlainWalk(u) \/ Refused(u) \/ ReadKeychain(u) \/ Fallback(u) PROVE torn'
  BY <1>3 DEF PlainWalk, CleanNative, SetFlag, Answered, LobbyChanges, RemoveWallet, ShowSeed, Refused,
              ReadKeychain, Fallback
<1>4. ASSUME NEW u \in Actors, NEW changed \in BOOLEAN, Fetch(u, changed) PROVE torn'
  BY <1>4 DEF Fetch
<1>5. ASSUME ReadFlag \/ LoadLobby \/ ReadBackup \/ RestoreHandle PROVE torn'
  BY <1>5 DEF ReadFlag, LoadLobby, ReadBackup, RestoreHandle
<1>6. ASSUME NEW u, NEW op, NEW d, NEW P, Begin(u, op, d, P) PROVE torn'
  BY <1>6 DEF Begin
<1>7. ASSUME NEW d \in Dids, ScreenBegins(d) \/ RegisterBegins(d) PROVE torn'
  BY <1>6, <1>7 DEF ScreenBegins, RegisterBegins
<1>8. ASSUME SeedConfirmed \/ AutoBegins PROVE torn'
  BY <1>6, <1>8 DEF SeedConfirmed, AutoBegins
<1>9. ASSUME KeystoreReset \/ Relaunch PROVE torn'
  BY <1>9 DEF KeystoreReset, Relaunch
<1>10. ASSUME NEW u \in Actors,
              \/ WriteStore(u) \/ ClearStore(u) \/ StoreThrows(u)
              \/ SetCurrent(u) \/ ClearCurrent(u)
              \/ CleanNative(u) \/ CleanThrows(u) \/ SetFlag(u)
              \/ Answered(u) \/ Refused(u) \/ LobbyChanges(u) \/ Bind(u) \/ RemoveWallet(u)
              \/ ShowSeed(u) \/ \E changed \in BOOLEAN : Fetch(u, changed)
              \/ ReadKeychain(u) \/ Fallback(u)
       PROVE  torn'
  <2>1. \/ IdentityStep(u) \/ StoreThrows(u) \/ CleanThrows(u)
        \/ PlainWalk(u) \/ Refused(u) \/ ReadKeychain(u) \/ Fallback(u)
        \/ \E changed \in BOOLEAN : Fetch(u, changed)
    BY <1>10, Zenon DEF IdentityStep, PlainWalk
  <2> QED
    BY <1>1, <1>2, <1>3, <1>4, <2>1, Zenon
<1> QED
  BY <1>5, <1>7, <1>8, <1>9, <1>10, Zenon DEF Next

LEMMA WholeStep ==
    ASSUME WholeInv, [Next]_vars
    PROVE  WholeInv'
<1>0. ControlInv /\ (~torn => StoreInv)
  BY DEF WholeInv
<1>1. ControlInv'
  BY <1>0, ControlStep
<1>2. CASE UNCHANGED vars
  <2>1. StoreInv' <=> StoreInv
    BY <1>2 DEF vars, storeVars, StoreInv, Mid, NoMid, Shape, Agree, BoundOK, SignsUp, Loads, Place
  <2>2. torn' = torn
    BY <1>2 DEF vars
  <2> QED
    BY <1>0, <1>1, <2>1, <2>2 DEF WholeInv
<1>3. ASSUME Next, ~torn' PROVE StoreInv'
  <2>1. StoreInv /\ ~torn
    BY <1>0, <1>3, Tears
  <2>2. Kinds
    BY <1>0, <1>3, NextKinds DEF ControlInv
  <2>3. ASSUME NEW d \in Dids, Begins(d) PROVE StoreInv'
    BY <1>0, <2>1, <2>3, BeginStore
  <2>4. ASSUME NEW u \in Actors, Walks(u) PROVE StoreInv'
    <3>1. IdentityStep(u) \/ PlainWalk(u)
      BY <2>4, Zenon DEF Walks, IdentityStep, PlainWalk
    <3> QED
      BY <1>0, <1>3, <2>1, <3>1, IdentityStepStore, PlainWalkStore
  <2>5. ASSUME NEW u \in Actors, StoreThrows(u) \/ Refused(u) \/ CleanThrows(u) PROVE StoreInv'
    <3>1. Refused(u) \/ CleanThrows(u)
      BY <1>3, <2>5 DEF StoreThrows
    <3> QED
      BY <1>0, <2>1, <3>1, RefusedStore, CleanThrowsStore
  <2> QED
    BY <1>0, <1>3, <2>1, <2>2, <2>3, <2>4, <2>5, ReadStore, ReadBackupStore,
       ResetStore, LaunchStore DEF Kinds
<1> QED
  BY <1>1, <1>2, <1>3 DEF WholeInv

LEMMA WholeHolds == Spec => []WholeInv
<1>1. Init => WholeInv
  BY ControlStart, StoreStart DEF WholeInv
<1>2. WholeInv /\ [Next]_vars => WholeInv'
  BY WholeStep
<1> QED
  BY <1>1, <1>2, PTL DEF Spec

\* When nothing is running, no task is in the middle.
LEMMA QuiescentNoMid ==
    ASSUME ControlInv, Quiescent
    PROVE  NoMid
BY DEF Quiescent, NoMid, Mid, Place, First, Idle

\* At rest the current identity is the one the backup holds for the next
\* launch; and unless the app died in the middle of a save or a wipe that none
\* has followed since, the DID cache and, while the Keystore can decrypt it,
\* the keychain hold the same.  All this unless a storage call failed or two
\* operations changed the identity at once: for any number of identities,
\* operations, relaunches and resets of the Keystore (SecureIdentityStorage.ts,
\* AuthContext.tsx).
THEOREM StoragePlacesAgree == Spec => []StorageAgrees
<1>1. WholeInv => StorageAgrees
  BY QuiescentNoMid DEF WholeInv, StoreInv, StorageAgrees, Agree
<1> QED
  BY <1>1, WholeHolds, PTL

\* At rest the QUIC session manager is bound to the current identity, although
\* a registration binds it by hand before there is one.
THEOREM SessionIsBoundToIdentity == Spec => []SessionFollowsIdentity
<1>1. WholeInv => SessionFollowsIdentity
  BY DEF WholeInv, StoreInv, SessionFollowsIdentity, BoundOK
<1> QED
  BY <1>1, WholeHolds, PTL

-----------------------------------------------------------------------------
(***************************************************************************)
(* Accounts whose registration failed.                                     *)
(***************************************************************************)
Registers == task["screen"].op = "register"
rd == task["screen"].d
Stored(d) == d \in {keychain, backup, id}
\* A task that may be about an account without a credential: its registration,
\* or a password sign-in that has not yet found it missing from the DID cache.
Keeps(u) == u = "screen" /\ (Registers \/ (task[u].op = "signIn" /\ Place(u) = "readId"))

\* The identity a registration creates is unknown to everything else.
RegInv ==
    Registers =>
        /\ pendingSeed # rd
        /\ \A u \in Actors \ {"screen"} : task[u].d # rd
        /\ Place("screen") \in {"begin", "create"} => rd \notin accounts
        /\ rd \in half => Place("screen") \notin {"begin", "create", "login", "saveLobby", "show"}

\* An identity without a credential belongs to the registration that created
\* it, and once that has ended it is stored nowhere.
HalfInv ==
    \A d \in half :
        /\ d \notin accounts /\ d # pendingSeed /\ d # current
        /\ \A u \in Actors : task[u].d = d => Keeps(u)
        /\ (Registers /\ rd = d) \/ ~Stored(d)

AccountInv == RegInv /\ HalfInv

\* Only the registration screen registers.
LEMMA Registrar ==
    ASSUME TaskOK, ScriptInv, NEW u \in Actors, task[u].op = "register"
    PROVE  u = "screen" /\ Registers /\ rd = task[u].d /\ rd \in Dids
<1>1. task[u] # Idle
  BY DEF Idle
<1>2. Runs(u, "register") /\ task[u].d \in Dids
  BY <1>1, PlaceOp DEF Found
<1> QED
  BY <1>2 DEF Runs, Registers, rd

\* What a move of one task does to the identities of the tasks.
LEMMA MoveDids ==
    ASSUME TypeOK, TaskOK, ScriptInv, NEW u \in Actors, NEW y, Moves(u, y), half' \subseteq Dids
    PROVE  /\ \A v \in Actors : task'[v].d = task[v].d \/ task'[v].d = None
           /\ Registers' => Registers /\ rd' = rd
           /\ Registers /\ ~Registers' => u = "screen" /\ y = "end"
           /\ Registers' /\ u # "screen" => Place("screen")' = Place("screen")
           /\ Registers' /\ u = "screen" => Place("screen")' = y
           /\ half \subseteq Dids /\ None \notin Dids
           /\ Registers => rd \in Dids
<1>1. "screen" \in Actors
  BY DEF Actors
<1>2. CASE u = "screen"
  BY <1>1, <1>2, Registrar, AuthAssumption DEF Moves, Idle, Registers, rd, Place, TypeOK
<1>3. CASE u # "screen"
  BY <1>1, <1>3, Registrar, AuthAssumption DEF Moves, Idle, Registers, rd, Place, TypeOK
<1> QED
  BY <1>2, <1>3

\* A move keeps an account with its registration.
LEMMA MoveKeeps ==
    ASSUME TypeOK, TaskOK, ScriptInv, AccountInv, NEW u \in Actors, NEW y, Moves(u, y), NEW d \in half,
           u = "screen" /\ rd = d => IF Registers THEN y # "end" ELSE y = "end"
    PROVE  /\ \A v \in Actors : task'[v].d = d => Keeps(v)'
           /\ Registers /\ rd = d => Registers' /\ rd' = d
<1>0. half \subseteq Dids /\ None \notin Dids /\ "screen" \in Actors
  BY AuthAssumption DEF TypeOK, Actors
<1>1. d # None /\ \A v \in Actors : task[v].d = d => Keeps(v)
  BY <1>0 DEF AccountInv, HalfInv
<1>2. ASSUME NEW v \in Actors, task'[v].d = d PROVE task[v].d = d
  <2>1. CASE v = u
    BY <1>1, <1>2, <2>1 DEF Moves, Idle
  <2>2. CASE v # u
    BY <1>2, <2>2 DEF Moves
  <2> QED
    BY <2>1, <2>2
<1>3. ASSUME Registers, rd = d PROVE Registers' /\ rd' = d
  <2>1. CASE u = "screen"
    BY <1>3, <2>1 DEF Moves, Registers, rd
  <2>2. CASE u # "screen"
    BY <1>0, <1>3, <2>2 DEF Moves, Registers, rd
  <2> QED
    BY <2>1, <2>2
<1>4. ASSUME NEW v \in Actors, task'[v].d = d PROVE Keeps(v)'
  <2>1. v = "screen" /\ rd = d /\ Keeps(v)
    BY <1>1, <1>2, <1>4 DEF Keeps, rd
  <2>2. CASE Registers
    BY <1>3, <2>1, <2>2 DEF Keeps
  <2>3. CASE ~Registers
    <3>1. u # "screen"
      BY <1>1, <1>4, <2>1, <2>3 DEF Moves, Idle
    <3>2. task'["screen"] = task["screen"]
      BY <1>0, <3>1 DEF Moves
    <3> QED
      BY <2>1, <2>3, <3>2 DEF Keeps, Place
  <2> QED
    BY <2>2, <2>3
<1> QED
  BY <1>3, <1>4

\* The screen's task is about such an account only to register it or before it
\* has looked at the DID cache, which does not name it.
LEMMA HalfPlace ==
    ASSUME AccountInv, rd \in half, ~Registers
    PROVE  task["screen"].op = "signIn" /\ Place("screen") = "readId" /\ id # rd
BY DEF AccountInv, HalfInv, Keeps, Stored, rd, Actors

\* A move that stores nothing keeps both.
LEMMA QuietAccount ==
    ASSUME TypeOK, TaskOK, ScriptInv, AccountInv, NEW u \in Actors, NEW y, Moves(u, y),
           UNCHANGED storeVars, accounts' = accounts, half' = half,
           pendingSeed' \in {pendingSeed, None}, current' \in {current, None},
           u = "screen" /\ Registers =>
               /\ y = "end" => rd \notin half
               /\ y \in {"begin", "create"} => rd \notin accounts
               /\ rd \in half => y \notin {"begin", "create", "login", "saveLobby", "show"},
           u = "screen" /\ ~Registers /\ rd \in half => y = "end"
    PROVE  AccountInv'
<1>1. half' \subseteq Dids
  BY DEF TypeOK
<1>2. /\ \A v \in Actors : task'[v].d = task[v].d \/ task'[v].d = None
      /\ Registers' => Registers /\ rd' = rd
      /\ Registers' /\ u # "screen" => Place("screen")' = Place("screen")
      /\ Registers' /\ u = "screen" => Place("screen")' = y
      /\ half \subseteq Dids /\ None \notin Dids
      /\ Registers => rd \in Dids
  BY <1>1, MoveDids
<1>3. keychain' = keychain /\ backup' = backup /\ id' = id
  BY DEF storeVars
<1>4. RegInv'
  <2> SUFFICES ASSUME Registers' PROVE RegInv'
    BY DEF RegInv
  <2>1. pendingSeed' # rd'
    BY <1>2 DEF AccountInv, RegInv
  <2>2. \A v \in Actors \ {"screen"} : task'[v].d # rd'
    BY <1>2 DEF AccountInv, RegInv
  <2>3. Place("screen")' \in {"begin", "create"} => rd' \notin accounts'
    BY <1>2 DEF AccountInv, RegInv
  <2>5. rd' \in half' => Place("screen")' \notin {"begin", "create", "login", "saveLobby", "show"}
    BY <1>2 DEF AccountInv, RegInv
  <2> QED
    BY <2>1, <2>2, <2>3, <2>5 DEF RegInv
<1>5. HalfInv'
  <2> SUFFICES ASSUME NEW d \in half
               PROVE  /\ d \notin accounts' /\ d # pendingSeed' /\ d # current'
                      /\ \A v \in Actors : task'[v].d = d => Keeps(v)'
                      /\ (Registers' /\ rd' = d) \/ ~Stored(d)'
    BY DEF HalfInv
  <2>1. d # None
    BY <1>2
  <2>2. /\ d \notin accounts /\ d # pendingSeed /\ d # current
        /\ (Registers /\ rd = d) \/ ~Stored(d)
    BY DEF AccountInv, HalfInv
  <2>3. /\ \A v \in Actors : task'[v].d = d => Keeps(v)'
        /\ Registers /\ rd = d => Registers' /\ rd' = d
    BY MoveKeeps
  <2>4. ~Stored(d) => ~Stored(d)'
    BY <1>3 DEF Stored
  <2> QED
    BY <2>1, <2>2, <2>3, <2>4
<1> QED
  BY <1>4, <1>5 DEF AccountInv

\* The flow of a registration and of its rollback.
LEMMA RegisterFlow ==
    ASSUME NEW x, NEW y, Follows("register", x, y)
    PROVE  \/ x = "begin" /\ y = "create"
           \/ x = "create" /\ y = "keychain"
           \/ x = "keychain" /\ y = "backup"
           \/ x = "backup" /\ y = "id"
           \/ x = "id" /\ y = "bind"
           \/ x = "bind" /\ y = "complete"
           \/ x = "complete" /\ y = "login"
           \/ x = "login" /\ y = "saveLobby"
           \/ x = "saveLobby" /\ y = "show"
           \/ x = "show" /\ y = "end"
           \/ x = "unbind" /\ y = "rmKeychain"
           \/ x = "rmKeychain" /\ y = "rmBackup"
           \/ x = "rmBackup" /\ y = "rmId"
           \/ x = "rmId" /\ y = "rmWallet"
           \/ x = "rmWallet" /\ y = "end"
BY DEF Follows, StoreFlow, ClearFlow

QuietPlaces == {"setFlag", "clearFlag", "saveLobby", "rmLobby", "bind", "unbind", "noCurrent", "native",
                "recover", "migrate", "clearSeed", "restored", "wallet", "readId", "begin", "login",
                "claim", "reregister"}

LEMMA QuietWalkAccount ==
    ASSUME ControlInv, AccountInv, NEW u \in Actors, Walks(u), Place(u) \in QuietPlaces
    PROVE  AccountInv'
<1>0. TypeOK /\ TaskOK /\ ScriptInv
  BY TypeParts DEF ControlInv
<1>1. PICK y : Follows(task[u].op, Place(u), y) /\ Moves(u, y)
  BY <1>0, WalkMoves
<1>2. \A x \in Steps : At(u, x) <=> Place(u) = x
  BY <1>0, AtPlace
<1>3. /\ UNCHANGED storeVars /\ accounts' = accounts /\ half' = half
      /\ pendingSeed' = pendingSeed /\ current' \in {current, None}
      /\ Place(u) = "readId" => id = task[u].d
  <2>1. \A x \in Steps \ QuietPlaces : ~At(u, x)
    BY <1>2
  <2>2. /\ ~WriteStore(u) /\ ~ClearStore(u) /\ ~SetCurrent(u) /\ ~RemoveWallet(u) /\ ~ShowSeed(u)
    BY <2>1, StepNames DEF QuietPlaces, WriteStore, ClearStore, SetCurrent, RemoveWallet, ShowSeed
  <2>3. CASE Answered(u)
    BY <1>2, <2>1, <2>3, StepNames DEF QuietPlaces, Answered
  <2>4. CASE CleanNative(u) \/ ClearCurrent(u) \/ SetFlag(u) \/ LobbyChanges(u) \/ Bind(u)
    <3>1. Place(u) # "readId"
      BY <1>2, <2>4, StepNames DEF CleanNative, ClearCurrent, SetFlag, LobbyChanges, Bind
    <3> QED
      BY <2>4, <3>1 DEF CleanNative, ClearCurrent, SetFlag, LobbyChanges, Bind, serverVars
  <2> QED
    BY <2>2, <2>3, <2>4, Zenon DEF Walks
<1>4. ASSUME u = "screen", Registers
      PROVE  /\ y = "end" => rd \notin half
             /\ y \in {"begin", "create"} => rd \notin accounts
             /\ rd \in half => y \notin {"begin", "create", "login", "saveLobby", "show"}
  <2>1. Follows("register", Place("screen"), y)
    BY <1>1, <1>4 DEF Registers
  <2>2. \/ Place("screen") = "begin" /\ y = "create"
        \/ Place("screen") = "bind" /\ y = "complete"
        \/ Place("screen") = "login" /\ y = "saveLobby"
        \/ Place("screen") = "saveLobby" /\ y = "show"
        \/ Place("screen") = "unbind" /\ y = "rmKeychain"
    BY <1>4, <2>1, RegisterFlow DEF QuietPlaces
  <2> QED
    BY <1>4, <2>2 DEF AccountInv, RegInv
<1>5. ~(u = "screen" /\ ~Registers /\ rd \in half)
  BY <1>3, HalfPlace DEF rd
<1> QED
  BY <1>0, <1>1, <1>3, <1>4, <1>5, QuietAccount

LEMMA RefusedAccount ==
    ASSUME ControlInv, AccountInv, NEW u \in Actors, Refused(u) \/ CleanThrows(u)
    PROVE  AccountInv'
<1>0. TypeOK /\ TaskOK /\ ScriptInv
  BY TypeParts DEF ControlInv
<1>1. CASE Refused(u)
  <2> DEFINE y == AfterRefusal(u)
  <2>1. Moves(u, y) /\ task[u] # Idle
    BY <1>0, <1>1, RefusedMoves
  <2>2. /\ UNCHANGED storeVars /\ accounts' = accounts /\ half' = half
        /\ pendingSeed' = pendingSeed /\ current' \in {current, None}
    BY <1>1 DEF Refused, serverVars
  <2>3. ASSUME u = "screen", Registers
        PROVE  /\ y = "end" => rd \notin half
               /\ y \notin {"begin", "create", "login", "saveLobby", "show"}
    <3>1. \E z : Follows("register", Place(u), z)
      BY <1>0, <2>1, <2>3, PlaceOp DEF Registers
    <3>2. Place(u) # "restored"
      BY <3>1, RegisterFlow
    <3> QED
      BY <2>3, <3>2 DEF AfterRefusal, AccountInv, RegInv, Registers
  <2>4. u = "screen" /\ ~Registers /\ rd \in half => y = "end"
    BY HalfPlace DEF AfterRefusal, Registers
  <2> HIDE DEF y
  <2> QED
    BY <1>0, <2>1, <2>2, <2>3, <2>4, QuietAccount
<1>2. CASE CleanThrows(u)
  <2>1. Moves(u, "end") /\ task[u] # Idle /\ Place(u) = "native"
    BY <1>0, <1>2, CleanThrowsMoves, AtPlace, StepNames DEF CleanThrows
  <2>2. /\ UNCHANGED storeVars /\ accounts' = accounts /\ half' = half
        /\ pendingSeed' = pendingSeed /\ current' = current
    BY <1>2 DEF CleanThrows, serverVars
  <2>3. ~(u = "screen" /\ Registers)
    <3>1. \E z : Follows(task[u].op, "native", z)
      BY <1>0, <2>1, PlaceOp
    <3>2. task[u].op # "register"
      BY <3>1, RegisterFlow
    <3> QED
      BY <3>2 DEF Registers
  <2> QED
    BY <1>0, <2>1, <2>2, <2>3, QuietAccount
<1> QED
  BY <1>1, <1>2

LEMMA ReadAccount ==
    ASSUME ControlInv, AccountInv,
           \/ ReadFlag \/ LoadLobby \/ RestoreHandle
           \/ \E u \in Actors, changed \in BOOLEAN : Fetch(u, changed)
    PROVE  AccountInv'
<1>0. TypeOK /\ TaskOK /\ ScriptInv /\ "boot" \in Actors
  BY TypeParts DEF ControlInv, Actors
<1>1. CASE ReadFlag \/ LoadLobby
  <2>1. \E y : Moves("boot", y)
    BY <1>0, <1>1, ReadFlagMoves
  <2>2. /\ UNCHANGED storeVars /\ accounts' = accounts /\ half' = half
        /\ pendingSeed' = pendingSeed /\ current' = current
    BY <1>1 DEF ReadFlag, LoadLobby, serverVars
  <2> QED
    BY <1>0, <2>1, <2>2, QuietAccount
<1>2. ASSUME NEW u \in Actors, NEW changed \in BOOLEAN, Fetch(u, changed) PROVE AccountInv'
  <2>1. /\ Place(u) = "fetch" /\ task[u].op \in {"boot", "recover", "signIn", "seed", "rereg"}
        /\ \E y : Moves(u, y)
    BY <1>0, <1>2, FetchMoves
  <2>2. /\ UNCHANGED storeVars /\ accounts' = accounts /\ half' = half
        /\ pendingSeed' = pendingSeed /\ current' = current
    BY <1>2 DEF Fetch, serverVars
  <2>3. ~(u = "screen" /\ Registers)
    BY <2>1 DEF Registers
  <2>4. ~(u = "screen" /\ ~Registers /\ rd \in half)
    BY <2>1, HalfPlace
  <2> QED
    BY <1>0, <2>1, <2>2, <2>3, <2>4, QuietAccount
<1>3. CASE RestoreHandle
  <2>1. /\ task'["screen"] = task["screen"]
        /\ \A v \in Actors : task'[v].d = task[v].d
    BY <1>0, <1>3, RestoreHandleMoves DEF Actors
  <2>2. /\ UNCHANGED <<keychain, backup, id>> /\ accounts' = accounts /\ half' = half
        /\ pendingSeed' = pendingSeed /\ current' = current
    BY <1>3 DEF RestoreHandle, storeVars, serverVars
  <2>3. RegInv'
    BY <2>1, <2>2 DEF AccountInv, RegInv, Registers, rd, Place
  <2>4. HalfInv'
    BY <2>1, <2>2 DEF AccountInv, HalfInv, Keeps, Stored, Registers, rd, Place
  <2> QED
    BY <2>3, <2>4 DEF AccountInv
<1> QED
  BY <1>1, <1>2, <1>3

\* Writing and clearing the stores.
LEMMA StoredAccount ==
    ASSUME ControlInv, StoreInv, AccountInv, NEW u \in Actors,
           WriteStore(u) \/ ClearStore(u) \/ SetCurrent(u), ~torn, ~torn'
    PROVE  AccountInv'
<1>0. TypeOK /\ TaskOK /\ ScriptInv
  BY TypeParts DEF ControlInv
<1>1. PICK y : Follows(task[u].op, Place(u), y) /\ Moves(u, y)
  BY <1>0, WalkMoves DEF Walks
<1>2. \A x \in Steps : At(u, x) <=> Place(u) = x
  BY <1>0, AtPlace
<1>3. \A v \in Actors \ {u} : ~Busy(v)
  BY <1>0, OverlapsAlone DEF WriteStore, ClearStore, SetCurrent
<1>4. Registers => u = "screen"
  BY <1>3 DEF Registers, Busy, SignsUp, Actors
<1>5. wallets' = wallets /\ accounts' = accounts /\ half' = half /\ pendingSeed' \in {pendingSeed, None}
  BY DEF WriteStore, ClearStore, SetCurrent, serverVars
<1>6. half' \subseteq Dids
  BY <1>0, <1>5 DEF TypeOK
<1>7. /\ \A v \in Actors : task'[v].d = task[v].d \/ task'[v].d = None
      /\ Registers' => Registers /\ rd' = rd
      /\ Registers /\ ~Registers' => u = "screen" /\ y = "end"
      /\ Registers' /\ u = "screen" => Place("screen")' = y
      /\ half \subseteq Dids /\ None \notin Dids
      /\ Registers => rd \in Dids
  BY <1>0, <1>1, <1>6, MoveDids
<1>8. /\ keychain' \in {keychain, task[u].d, None} /\ backup' \in {backup, task[u].d, None}
      /\ id' \in {id, task[u].d, None}
  BY DEF WriteStore, ClearStore, SetCurrent, storeVars
<1>13. Place(u) \in {"keychain", "backup", "id", "syncBackup", "rmKeychain", "rmBackup", "rmId", "dropId", "current"}
  BY <1>2, StepNames DEF WriteStore, ClearStore, SetCurrent
<1>14. ASSUME NEW d \in half, task[u].d = d PROVE u = "screen" /\ Registers /\ rd = d
  BY <1>13, <1>14 DEF AccountInv, HalfInv, Keeps, rd
<1>9. current' = current \/ (current' = task[u].d /\ ~Registers)
  <2>1. CASE SetCurrent(u)
    <3>1. Place(u) = "current" /\ current' = task[u].d
      BY <1>2, <2>1, StepNames DEF SetCurrent
    <3>2. task[u].op # "register"
      BY <1>1, <3>1, IdentityFlow
    <3> QED
      BY <1>4, <3>1, <3>2 DEF Registers
  <2>2. CASE ~SetCurrent(u)
    BY <2>2 DEF WriteStore, ClearStore
  <2> QED
    BY <2>1, <2>2
<1>10. Registers => y \in {"backup", "id", "bind", "rmBackup", "rmId", "rmWallet"}
  <2> SUFFICES ASSUME Registers PROVE y \in {"backup", "id", "bind", "rmBackup", "rmId", "rmWallet"}
    OBVIOUS
  <2>1. u = "screen" /\ Follows("register", Place(u), y)
    BY <1>1, <1>4 DEF Registers
  <2> QED
    BY <1>13, <2>1, RegisterFlow
<1>11. RegInv'
  <2> SUFFICES ASSUME Registers' PROVE RegInv'
    BY DEF RegInv
  <2>1. Registers /\ rd' = rd /\ u = "screen" /\ Place("screen")' = y
    BY <1>4, <1>7
  <2>2. pendingSeed' # rd'
    BY <1>5, <1>7, <2>1 DEF AccountInv, RegInv
  <2>3. \A v \in Actors \ {"screen"} : task'[v].d # rd'
    BY <1>7, <2>1 DEF AccountInv, RegInv
  <2> QED
    BY <1>10, <2>1, <2>2, <2>3 DEF RegInv
<1>12. HalfInv'
  <2> SUFFICES ASSUME NEW d \in half
               PROVE  /\ d \notin accounts' /\ d # pendingSeed' /\ d # current'
                      /\ \A v \in Actors : task'[v].d = d => Keeps(v)'
                      /\ (Registers' /\ rd' = d) \/ ~Stored(d)'
    BY <1>5 DEF HalfInv
  <2>1. d # None
    BY <1>7
  <2>2. /\ d \notin accounts /\ d # pendingSeed /\ d # current
        /\ (Registers /\ rd = d) \/ ~Stored(d)
    BY DEF AccountInv, HalfInv
  <2>3. u = "screen" /\ rd = d => IF Registers THEN y # "end" ELSE y = "end"
    BY <1>10, <1>14 DEF rd
  <2>4. /\ \A v \in Actors : task'[v].d = d => Keeps(v)'
        /\ Registers /\ rd = d => Registers' /\ rd' = d
    BY <1>0, <1>1, <2>3, MoveKeeps
  <2>5. d # current'
    BY <1>9, <1>14, <2>2
  <2>6. (Registers' /\ rd' = d) \/ ~Stored(d)'
    <3>1. CASE task[u].d = d
      BY <1>14, <2>4, <3>1
    <3>2. CASE task[u].d # d
      BY <1>8, <2>1, <2>2, <2>4, <3>2 DEF Stored
    <3> QED
      BY <3>1, <3>2
  <2> QED
    BY <1>5, <2>1, <2>2, <2>4, <2>5, <2>6
<1> QED
  BY <1>11, <1>12 DEF AccountInv

\* The calls that make an account half and that give it its credential.
LEMMA AnsweredAccount ==
    ASSUME ControlInv, StoreInv, AccountInv, NEW u \in Actors, Answered(u),
           Place(u) \in {"create", "complete"}
    PROVE  AccountInv'
<1>0. TypeOK /\ TaskOK /\ ScriptInv
  BY TypeParts DEF ControlInv
<1>1. PICK y : Follows(task[u].op, Place(u), y) /\ Moves(u, y)
  BY <1>0, WalkMoves DEF Walks
<1>2. \A x \in Steps : At(u, x) <=> Place(u) = x
  BY <1>0, AtPlace
<1>3. task[u].d \in Dids /\ task[u] # Idle
  BY <1>0, Owner, AtPlace
<1>4. /\ keychain' = keychain /\ backup' = backup /\ id' = id
      /\ current' = current /\ pendingSeed' = pendingSeed
  BY DEF Answered, storeVars
<1>5. /\ half' = IF Place(u) = "create" THEN half \cup {task[u].d}
                 ELSE IF Place(u) = "complete" THEN half \ {task[u].d} ELSE half
      /\ accounts' = IF Place(u) = "complete" THEN accounts \cup {task[u].d} ELSE accounts
  BY <1>2, StepNames DEF Answered
<1>6. half' \subseteq Dids
  BY <1>0, <1>3, <1>5 DEF TypeOK
<1>7. /\ \A v \in Actors : task'[v].d = task[v].d \/ task'[v].d = None
      /\ Registers' => Registers /\ rd' = rd
      /\ Registers /\ ~Registers' => u = "screen" /\ y = "end"
      /\ Registers' /\ u = "screen" => Place("screen")' = y
      /\ half \subseteq Dids /\ None \notin Dids
      /\ Registers => rd \in Dids
  BY <1>0, <1>1, <1>6, MoveDids
<1>8. u = "screen"
  <2>1. Runs(u, task[u].op)
    BY <1>0, <1>3, PlaceOp
  <2>2. task[u].op \in {"register", "signIn"}
    BY <1>1 DEF Follows, StoreFlow, ClearFlow
  <2> QED
    BY <2>1, <2>2 DEF Runs
<1>9. rd = task[u].d /\ u \in Actors
  BY <1>8 DEF rd
<1>10. Registers => \/ Place(u) = "create" /\ y = "keychain"
                    \/ Place(u) = "complete" /\ y = "login"
  <2> SUFFICES ASSUME Registers PROVE \/ Place(u) = "create" /\ y = "keychain"
                                      \/ Place(u) = "complete" /\ y = "login"
    OBVIOUS
  <2>1. Follows("register", Place(u), y)
    BY <1>1, <1>8 DEF Registers
  <2> QED
    BY <2>1, RegisterFlow
<1>11. Place(u) = "create" => Registers
  <2>1. Place(u) = "create" => task[u].op = "register"
    BY <1>1 DEF Follows, StoreFlow, ClearFlow
  <2> QED
    BY <1>8, <2>1 DEF Registers
<1>12. RegInv'
  <2> SUFFICES ASSUME Registers' PROVE RegInv'
    BY DEF RegInv
  <2>1. Registers /\ rd' = rd /\ Place("screen")' = y
    BY <1>7, <1>8
  <2>2. pendingSeed' # rd'
    BY <1>4, <2>1 DEF AccountInv, RegInv
  <2>3. \A v \in Actors \ {"screen"} : task'[v].d # rd'
    BY <1>7, <2>1 DEF AccountInv, RegInv
  <2>4. y = "login" => rd \notin half'
    BY <1>5, <1>9, <1>10, <2>1
  <2> QED
    BY <1>10, <2>1, <2>2, <2>3, <2>4 DEF RegInv
<1>13. HalfInv'
  <2> SUFFICES ASSUME NEW d \in half'
               PROVE  /\ d \notin accounts' /\ d # pendingSeed' /\ d # current'
                      /\ \A v \in Actors : task'[v].d = d => Keeps(v)'
                      /\ (Registers' /\ rd' = d) \/ ~Stored(d)'
    BY DEF HalfInv
  <2>1. d # None
    BY <1>6, <1>7
  <2>2. CASE d = rd /\ Place(u) = "create"
    <3>1. Registers /\ Registers' /\ rd' = d
      BY <1>7, <1>10, <1>11, <2>2
    <3>2. d \notin accounts' /\ d # pendingSeed'
      BY <1>4, <1>5, <1>8, <2>2, <3>1 DEF AccountInv, RegInv
    <3>3. current = None
      BY <1>8, <3>1 DEF StoreInv, SignsUp, Registers
    <3>4. \A v \in Actors \ {"screen"} : task'[v].d # d
      BY <1>7, <2>1, <2>2, <3>1 DEF AccountInv, RegInv
    <3>5. \A v \in Actors : task'[v].d = d => Keeps(v)'
      BY <3>1, <3>4 DEF Keeps
    <3> QED
      BY <1>4, <2>1, <3>1, <3>2, <3>3, <3>5
  <2>3. CASE ~(d = rd /\ Place(u) = "create")
    <3>1. d \in half /\ (Place(u) = "complete" => d # task[u].d)
      BY <1>5, <1>9, <2>3
    <3>2. /\ d \notin accounts /\ d # pendingSeed /\ d # current
          /\ (Registers /\ rd = d) \/ ~Stored(d)
      BY <3>1 DEF AccountInv, HalfInv
    <3>3. d \notin accounts' /\ rd # d
      BY <1>5, <1>9, <2>3, <3>1, <3>2
    <3>4. \A v \in Actors : task'[v].d = d => Keeps(v)'
      BY <1>0, <1>1, <3>1, <3>3, MoveKeeps
    <3>5. ~Stored(d)'
      BY <1>4, <3>2, <3>3 DEF Stored
    <3> QED
      BY <1>4, <3>2, <3>3, <3>4, <3>5
  <2> QED
    BY <2>2, <2>3
<1> QED
  BY <1>12, <1>13 DEF AccountInv

\* The end of a rollback, and of a registration.
LEMMA EndAccount ==
    ASSUME ControlInv, StoreInv, AccountInv, NEW u \in Actors, RemoveWallet(u) \/ ShowSeed(u)
    PROVE  AccountInv'
<1>0. TypeOK /\ TaskOK /\ ScriptInv
  BY TypeParts DEF ControlInv
<1>1. task[u] # Idle /\ \E y : Follows(task[u].op, Place(u), y) /\ Moves(u, y)
  BY <1>0, WalkMoves DEF Walks
<1>2. \/ Place(u) = "rmWallet" /\ RemoveWallet(u)
      \/ Place(u) = "show" /\ ShowSeed(u)
  BY <1>0, AtPlace, StepNames DEF RemoveWallet, ShowSeed
<1>3. Moves(u, "end") /\ task[u].op \in {"register", "migrate"}
      /\ (Place(u) = "rmWallet" => task[u].op = "register")
  BY <1>1, <1>2 DEF Follows, StoreFlow, ClearFlow
<1>4. u = "screen"
  BY <1>0, <1>1, <1>3, PlaceOp DEF Runs
<1>5. /\ keychain' = keychain /\ backup' = backup /\ id' \in {id, None}
      /\ accounts' = accounts /\ half' = half /\ current' = current
      /\ pendingSeed' = pendingSeed \/ (Place(u) = "show" /\ pendingSeed' = rd)
  BY <1>2, <1>4 DEF RemoveWallet, ShowSeed, storeVars, serverVars, rd
<1>6. task'["screen"] = Idle /\ ~Registers' /\ \A v \in Actors \ {"screen"} : task'[v] = task[v]
  BY <1>3, <1>4 DEF Moves, Registers, Idle
<1>7. RegInv'
  BY <1>6 DEF RegInv
<1>8. HalfInv'
  <2> SUFFICES ASSUME NEW d \in half
               PROVE  /\ d \notin accounts' /\ d # pendingSeed' /\ d # current'
                      /\ \A v \in Actors : task'[v].d = d => Keeps(v)'
                      /\ (Registers' /\ rd' = d) \/ ~Stored(d)'
    BY <1>5 DEF HalfInv
  <2>1. d # None
    BY <1>0, AuthAssumption DEF TypeOK
  <2>2. /\ d \notin accounts /\ d # pendingSeed /\ d # current
        /\ \A v \in Actors : task[v].d = d => v = "screen"
        /\ (Registers /\ rd = d) \/ ~Stored(d)
    BY DEF AccountInv, HalfInv, Keeps
  <2>3. rd = d => Place(u) = "rmWallet"
    <3>1. CASE Registers
      BY <1>2, <1>4, <3>1 DEF AccountInv, RegInv
    <3>2. CASE ~Registers
      BY <1>2, <1>4, <3>2, HalfPlace
    <3> QED
      BY <3>1, <3>2
  <2>4. d # pendingSeed'
    BY <1>5, <2>2, <2>3
  <2>5. \A v \in Actors : task'[v].d # d
    BY <1>6, <2>1, <2>2 DEF Idle
  <2>6. ~Stored(d)'
    <3>1. CASE rd = d
      <4>1. keychain = None /\ backup = None /\ id = None
        BY <1>3, <2>3, <3>1 DEF StoreInv, Shape
      <4> QED
        BY <1>5, <2>1, <4>1 DEF Stored
    <3>2. CASE rd # d
      BY <1>5, <2>1, <2>2, <3>2 DEF Stored
    <3> QED
      BY <3>1, <3>2
  <2> QED
    BY <1>5, <2>2, <2>4, <2>5, <2>6
<1> QED
  BY <1>7, <1>8 DEF AccountInv

\* What is loaded or restored is no half account: while no registration runs
\* none is stored.
LEMMA LoadAccount ==
    ASSUME ControlInv, AccountInv, ReadBackup \/ \E u \in Actors : ReadKeychain(u) \/ Fallback(u)
    PROVE  AccountInv'
<1>0. TypeOK /\ TaskOK /\ ScriptInv /\ BootInv /\ "boot" \in Actors /\ "screen" \in Actors
  BY TypeParts DEF ControlInv, Actors
<1>1. /\ accounts' = accounts /\ half' = half /\ pendingSeed' = pendingSeed
      /\ keychain' = keychain /\ backup' = backup /\ id' = id
  BY DEF ReadBackup, ReadKeychain, Fallback, storeVars, serverVars
<1> DEFINE Loaded == /\ ~Registers /\ ~Registers' /\ current' \in {current, backup}
                     /\ task["screen"].op # "signIn"
                     /\ \A v \in Actors : task'[v].d \in {task[v].d, None, keychain, backup}
<1>2. Loaded
  <2>1. ASSUME NEW u \in Actors, ReadKeychain(u) \/ Fallback(u) PROVE Loaded
    <3>1. /\ u = "screen" /\ task[u].op = "demand"
          /\ \A v \in Actors \ {u} : task'[v] = task[v]
          /\ \/ task'[u] = Idle
             \/ task'[u].op = "demand" /\ task'[u].d \in {task[u].d, keychain, backup}
      BY <1>0, <2>1, ReadKeychainMoves, FallbackMoves
    <3>2. current' = current
      BY <2>1 DEF ReadKeychain, Fallback
    <3> QED
      BY <3>1, <3>2 DEF Registers, Idle
  <2>2. ASSUME ReadBackup PROVE Loaded
    <3>1. /\ Place("boot") = "readBackup" /\ current' \in {current, backup}
          /\ \A v \in Actors \ {"boot"} : task'[v] = task[v]
          /\ \/ task'["boot"].d = backup
             \/ task'["boot"] = Idle
             \/ task'["boot"].d = task["boot"].d
      BY <1>0, <2>2, ReadBackupMoves
    <3>2. task["screen"] = Idle
      BY <1>0, <3>1 DEF BootInv, OpenPlaces, TaskOK
    <3>3. ~Registers /\ ~Registers' /\ task["screen"].op # "signIn"
      BY <1>0, <3>1, <3>2 DEF Registers, Idle
    <3>4. \A v \in Actors : task'[v].d \in {task[v].d, None, keychain, backup}
      BY <3>1 DEF Idle
    <3> QED
      BY <3>1, <3>3, <3>4
  <2> HIDE DEF Loaded
  <2> QED
    BY <2>1, <2>2
<1>3. RegInv'
  BY <1>2 DEF RegInv
<1>4. HalfInv'
  <2> SUFFICES ASSUME NEW d \in half
               PROVE  /\ d \notin accounts' /\ d # pendingSeed' /\ d # current'
                      /\ \A v \in Actors : task'[v].d = d => Keeps(v)'
                      /\ (Registers' /\ rd' = d) \/ ~Stored(d)'
    BY <1>1 DEF HalfInv
  <2>1. d # None
    BY <1>0, AuthAssumption DEF TypeOK
  <2>2. /\ d \notin accounts /\ d # pendingSeed /\ d # current
        /\ \A v \in Actors : task[v].d = d => Keeps(v)
        /\ (Registers /\ rd = d) \/ ~Stored(d)
    BY DEF AccountInv, HalfInv
  <2>3. ~Stored(d) /\ \A v \in Actors : task[v].d # d
    BY <1>2, <2>2 DEF Keeps
  <2>4. d \notin {keychain, backup, id} /\ ~Stored(d)'
    BY <1>1, <2>3 DEF Stored
  <2>5. \A v \in Actors : task'[v].d # d
    BY <1>2, <2>1, <2>3, <2>4
  <2> QED
    BY <1>1, <1>2, <2>2, <2>4, <2>5
<1> QED
  BY <1>3, <1>4 DEF AccountInv

\* Operations begin with an identity that is no half account, but for a sign-in
\* that still has to find its DID in the cache, and a registration with one that
\* nothing knows.
LEMMA BeginAccount ==
    ASSUME ControlInv, StoreInv, AccountInv, NEW d \in Dids, Begins(d)
    PROVE  AccountInv'
<1>0. TypeOK /\ TaskOK /\ ScriptInv /\ "screen" \in Actors /\ "seed" \in Actors /\ "auto" \in Actors
  BY TypeParts DEF ControlInv, Actors
<1>1. PICK w, b, e, P : Begin(w, b, e, P)
  BY <1>0, BeginsOne
<1>2. /\ accounts' = accounts /\ half' = half /\ pendingSeed' = pendingSeed
      /\ current' = current /\ keychain' = keychain /\ backup' = backup /\ id' = id
  BY <1>1 DEF Begin, serverVars, storeVars
<1>3. StartsOne(d)
  BY <1>0, BeginsOne
<1>4. half \subseteq Dids /\ None \notin Dids
  BY <1>0, AuthAssumption DEF TypeOK
<1>5. ASSUME NEW i \in half
      PROVE  /\ i \notin accounts /\ i # pendingSeed /\ i # current /\ i # None
             /\ \A v \in Actors : task[v].d = i => Keeps(v)
             /\ (Registers /\ rd = i) \/ ~Stored(i)
  BY <1>4 DEF AccountInv, HalfInv
<1>6. ASSUME NEW u \in Actors, NEW op, NEW j, NEW y, Starts(u, op, j, y), op # "register",
             j \notin half \/ (u = "screen" /\ op = "signIn" /\ y = "readId"),
             Registers => j # rd
      PROVE  AccountInv'
  <2>1. /\ task[u] = Idle /\ \A v \in Actors \ {u} : task'[v] = task[v]
        /\ task'[u].op = op /\ task'[u].d = j /\ Place(u)' = y
    BY <1>6 DEF Starts
  <2>2. Registers' <=> Registers
    BY <1>0, <1>6, <2>1 DEF Registers, Idle
  <2>3. Registers => u # "screen" /\ task'["screen"] = task["screen"]
    BY <1>0, <2>1 DEF Registers, Idle
  <2>4. RegInv'
    BY <1>2, <1>6, <2>1, <2>2, <2>3 DEF AccountInv, RegInv, rd, Place
  <2>5. ASSUME NEW i \in half'
        PROVE  /\ i \notin accounts' /\ i # pendingSeed' /\ i # current'
               /\ \A v \in Actors : task'[v].d = i => Keeps(v)'
               /\ (Registers' /\ rd' = i) \/ ~Stored(i)'
    <3>1. i \in half
      BY <1>2, <2>5
    <3>2. i \notin accounts' /\ i # pendingSeed' /\ i # current'
      BY <1>2, <1>5, <3>1
    <3>3. ASSUME NEW v \in Actors, task'[v].d = i PROVE Keeps(v)'
      <4>1. CASE v = u
        BY <1>6, <2>1, <3>1, <3>3, <4>1 DEF Keeps
      <4>2. CASE v # u
        <5>1. Keeps(v) /\ task'[v] = task[v]
          BY <1>5, <2>1, <3>1, <3>3, <4>2
        <5> QED
          BY <2>2, <5>1 DEF Keeps, Place
      <4> QED
        BY <4>1, <4>2
    <3>4. Stored(i)' <=> Stored(i)
      BY <1>2 DEF Stored
    <3>5. (Registers' /\ rd' = i) \/ ~Stored(i)'
      BY <1>5, <2>2, <2>3, <3>1, <3>4 DEF rd
    <3> QED
      BY <3>2, <3>3, <3>5
  <2>6. HalfInv'
    BY <2>5 DEF HalfInv
  <2> QED
    BY <2>4, <2>6 DEF AccountInv
<1>7. ASSUME NEW op, NEW j, NEW y, Starts("screen", op, j, y) PROVE ~Registers
  BY <1>7 DEF Starts, Registers, Idle
<1>8. CASE d \notin half /\ \/ Starts("screen", "recover", d, "recover")
                            \/ Starts("screen", "migrate", d, "migrate")
  BY <1>0, <1>6, <1>7, <1>8
<1>9. CASE d \in accounts /\ Starts("screen", "signIn", d, "login")
  <2>1. d \notin half
    BY <1>5, <1>9
  <2> QED
    BY <1>0, <1>6, <1>7, <1>9, <2>1
<1>10. CASE Starts("screen", "signIn", d, "readId")
  BY <1>0, <1>6, <1>7, <1>10
<1>11. CASE Starts("screen", "demand", None, "readKeychain")
  <2>1. None \notin half
    BY <1>4
  <2> QED
    BY <1>0, <1>6, <1>7, <1>11, <2>1
<1>12. CASE \/ Starts("screen", "signOut", current, "rmKeychain")
            \/ \E y \in {"keychain", "current"} : Starts("screen", "update", current, y)
  <2>1. current \notin half
    BY <1>5
  <2> QED
    BY <1>0, <1>6, <1>7, <1>12, <2>1
<1>13. CASE pendingSeed # None /\ Starts("seed", "seed", pendingSeed, "keychain")
  <2>1. pendingSeed \notin half /\ (Registers => pendingSeed # rd)
    BY <1>5 DEF AccountInv, RegInv
  <2> QED
    BY <1>0, <1>6, <1>13, <2>1
<1>14. CASE /\ current # None
            /\ \/ Starts("auto", "cleanup", current, "setFlag")
               \/ Starts("auto", "claim", current, "claim")
               \/ Starts("auto", "rereg", current, "reregister")
  <2>1. current \notin half
    BY <1>5
  <2>2. ~Registers
    BY <1>0, <1>14 DEF StoreInv, SignsUp, Registers
  <2> QED
    BY <1>0, <1>6, <1>14, <2>1, <2>2
<1>15. CASE current = None /\ Fresh(d) /\ Starts("screen", "register", d, "begin")
  <2>1. /\ task["screen"] = Idle /\ \A v \in Actors \ {"screen"} : task'[v] = task[v]
        /\ Registers' /\ rd' = d /\ Place("screen")' = "begin" /\ task'["screen"].d = d
    BY <1>15 DEF Starts, Registers, rd
  <2>2. ~Registers
    BY <1>7, <1>15
  <2>3. /\ d \notin accounts /\ d \notin half /\ d # pendingSeed
        /\ \A v \in Actors : task[v].d # d
    BY <1>15 DEF Fresh
  <2>4. RegInv'
    BY <1>2, <2>1, <2>3 DEF RegInv
  <2>5. ASSUME NEW i \in half'
        PROVE  /\ i \notin accounts' /\ i # pendingSeed' /\ i # current'
               /\ \A v \in Actors : task'[v].d # i
               /\ ~Stored(i)'
    <3>1. i \in half /\ i # d
      BY <1>2, <2>3, <2>5
    <3>2. i \notin accounts' /\ i # pendingSeed' /\ i # current'
      BY <1>2, <1>5, <3>1
    <3>3. \A v \in Actors : task'[v].d # i
      BY <1>5, <2>1, <3>1 DEF Keeps
    <3>4. ~Stored(i)'
      BY <1>2, <1>5, <2>2, <3>1 DEF Stored
    <3> QED
      BY <3>2, <3>3, <3>4
  <2>6. HalfInv'
    BY <2>5 DEF HalfInv
  <2> QED
    BY <2>4, <2>6 DEF AccountInv
<1> QED
  BY <1>3, <1>8, <1>9, <1>10, <1>11, <1>12, <1>13, <1>14, <1>15 DEF StartsOne

\* A launch forgets the tasks; of a registration it cut short the account is no
\* longer counted as failed.
LEMMA LaunchAccount ==
    ASSUME ControlInv, AccountInv, Relaunch
    PROVE  AccountInv'
<1>0. TypeOK /\ TaskOK /\ ScriptInv /\ "screen" \in Actors
  BY TypeParts DEF ControlInv, Actors
<1>1. /\ accounts' = accounts /\ half' \subseteq half /\ (Registers => rd \notin half')
      /\ pendingSeed' = None /\ current' = None /\ task' = Launched
      /\ keychain' = keychain /\ backup' = backup /\ id' = id
  BY <1>0 DEF Relaunch, Registers, rd
<1>2. /\ \A u \in Actors : task'[u].d = None
      /\ ~Registers'
  BY <1>0, <1>1, LaunchTasks DEF Registers, Idle
<1>3. RegInv'
  BY <1>2 DEF RegInv
<1>4. HalfInv'
  <2> SUFFICES ASSUME NEW d \in half'
               PROVE  /\ d \notin accounts' /\ d # pendingSeed' /\ d # current'
                      /\ \A v \in Actors : task'[v].d # d
                      /\ ~Stored(d)'
    BY DEF HalfInv
  <2>1. d \in half /\ ~(Registers /\ rd = d)
    BY <1>1
  <2>2. d # None
    BY <1>0, <2>1, AuthAssumption DEF TypeOK
  <2>3. d \notin accounts /\ ~Stored(d)
    BY <2>1 DEF AccountInv, HalfInv
  <2>4. ~Stored(d)'
    BY <1>1, <2>3 DEF Stored
  <2> QED
    BY <1>1, <1>2, <2>2, <2>3, <2>4
<1> QED
  BY <1>3, <1>4 DEF AccountInv

\* A reset of the Keystore touches none of it.
LEMMA ResetAccount ==
    ASSUME AccountInv, KeystoreReset
    PROVE  AccountInv'
<1>1. /\ UNCHANGED <<keychain, backup, id, task>> /\ accounts' = accounts /\ half' = half
      /\ pendingSeed' = pendingSeed /\ current' = current
  BY DEF KeystoreReset, serverVars
<1> QED
  BY <1>1 DEF AccountInv, RegInv, HalfInv, Keeps, Registers, rd, Stored, Place

LEMMA AccountStep ==
    ASSUME WholeInv, ~torn => AccountInv, [Next]_vars
    PROVE  ~torn' => AccountInv'
<1> SUFFICES ASSUME ~torn' PROVE AccountInv'
  OBVIOUS
<1>0. ControlInv /\ TaskOK
  BY TypeParts DEF WholeInv, ControlInv
<1>1. CASE UNCHANGED vars
  <2>1. AccountInv' <=> AccountInv
    BY <1>1
       DEF vars, storeVars, serverVars, AccountInv, RegInv, HalfInv, Keeps, Registers, rd, Stored, Place
  <2>2. torn' = torn
    BY <1>1 DEF vars
  <2> QED
    BY <2>1, <2>2
<1>2. CASE Next
  <2>1. ~torn /\ StoreInv /\ AccountInv
    BY <1>2, Tears DEF WholeInv
  <2>2. Kinds
    BY <1>0, <1>2, NextKinds DEF ControlInv
  <2>3. ASSUME NEW d \in Dids, Begins(d) PROVE AccountInv'
    BY <1>0, <2>1, <2>3, BeginAccount
  <2>4. ASSUME NEW u \in Actors, Walks(u) PROVE AccountInv'
    <3>1. \A x \in Steps : At(u, x) <=> Place(u) = x
      BY <1>0, AtPlace
    <3>2. CASE WriteStore(u) \/ ClearStore(u) \/ SetCurrent(u)
      BY <1>0, <2>1, <3>2, StoredAccount
    <3>3. CASE RemoveWallet(u) \/ ShowSeed(u)
      BY <1>0, <2>1, <3>3, EndAccount
    <3>4. CASE Answered(u)
      <4>1. Place(u) \in {"create", "complete"} \/ Place(u) \in QuietPlaces
        BY <3>1, <3>4, StepNames DEF Answered, Calls, QuietPlaces
      <4> QED
        BY <1>0, <2>1, <2>4, <3>4, <4>1, AnsweredAccount, QuietWalkAccount
    <3>5. CASE CleanNative(u) \/ ClearCurrent(u) \/ SetFlag(u) \/ LobbyChanges(u) \/ Bind(u)
      <4>1. Place(u) \in QuietPlaces
        BY <3>1, <3>5, StepNames DEF CleanNative, ClearCurrent, SetFlag, LobbyChanges, Bind, QuietPlaces
      <4> QED
        BY <1>0, <2>1, <2>4, <4>1, QuietWalkAccount
    <3> QED
      BY <2>4, <3>2, <3>3, <3>4, <3>5, Zenon DEF Walks
  <2>5. ASSUME NEW u \in Actors, StoreThrows(u) \/ Refused(u) \/ CleanThrows(u) PROVE AccountInv'
    <3>1. Refused(u) \/ CleanThrows(u)
      BY <2>5 DEF StoreThrows
    <3> QED
      BY <1>0, <2>1, <3>1, RefusedAccount
  <2>6. CASE \/ ReadFlag \/ LoadLobby \/ RestoreHandle
             \/ \E u \in Actors, changed \in BOOLEAN : Fetch(u, changed)
    BY <1>0, <2>1, <2>6, ReadAccount
  <2>7. CASE ReadBackup \/ \E u \in Actors : ReadKeychain(u) \/ Fallback(u)
    BY <1>0, <2>1, <2>7, LoadAccount
  <2>8. CASE KeystoreReset \/ Relaunch
    BY <1>0, <2>1, <2>8, ResetAccount, LaunchAccount
  <2> QED
    BY <2>2, <2>3, <2>4, <2>5, <2>6, <2>7, <2>8 DEF Kinds
<1> QED
  BY <1>1, <1>2

\* An account whose registration failed is rolled back so completely that no
\* later launch, sign-in, on-demand load or seed phrase signs the user in to
\* it, although its wallet may survive the rollback, and whatever
\* registrations, sign-ins, clean-ups, re-registrations and relaunches
\* interleave, unless a storage call failed or two operations changed the
\* identity at once (rollbackRegistration of AuthContext.tsx).
THEOREM NoHalfAccountIsEntered == Spec => []NoHalfAccount
<1> DEFINE A == ~torn => AccountInv
<1>1. Init => A
  BY LaunchTasks DEF Init, AccountInv, RegInv, HalfInv, Registers, Idle, Actors
<1>2. WholeInv /\ A /\ [Next]_vars => A'
  BY AccountStep
<1>3. A => NoHalfAccount
  BY DEF AccountInv, HalfInv, NoHalfAccount
<1> HIDE DEF A
<1> QED
  BY <1>1, <1>2, <1>3, WholeHolds, PTL DEF Spec
=============================================================================
