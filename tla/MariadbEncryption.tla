-------------------------- MODULE MariadbEncryption --------------------------
(***************************************************************************)
(* Encryption at rest of the shared MariaDB: the settings and the key of   *)
(* services/managedDbEncryption.js, the two operations of an administrator *)
(* (setMariadbEncryption, unloadMariadbEncryptionKey) and ensureServer of  *)
(* services/managedDb.js, which every deploy with a database calls too and *)
(* which recreates the container when it is not the one the settings want. *)
(*                                                                         *)
(* The operations hold one lock, ensureServer another; the settings are    *)
(* read several times on the way, and a deploy's ensureServer reads them   *)
(* while an operation changes them.  The database's own part (external):   *)
(* background threads encrypt or decrypt its tablespaces, applications     *)
(* create tables, and nothing encrypted can be read without the key.       *)
(* Left out: TLS, the change of ENCRYPTION_KEY, the conversion to InnoDB.  *)
(* Names other modules use too carry the prefix Mariadb.                   *)
(***************************************************************************)
EXTENDS Naturals

Modes == {"none", "decrypt", "encrypt"}

VARIABLES
  enabled, loaded, key,  \* the three settings rows; key: one exists
  keyFile,               \* keys.enc is in place
  row,                   \* managed_db_servers has the server
  cont,                  \* the container: NoCont, or its label, key mount, server
                         \* arguments; whether it runs, and was told to decrypt
  spaces,                \* InnoDB tablespaces: "plain", "part", "encrypted"
  forced,                \* some table was created with ENCRYPTED=YES
  aria,                  \* some Aria table is encrypted
  admin,                 \* the operation under way and whether to delete the key
  ens,                   \* the ensureServer that holds the lock, or NoEnsure
  failed,                \* history: an ensureServer failed or was cut short, or the
                         \* container stopped, and none succeeded since
  raced,                 \* history: the settings changed while the ensureServer that
                         \* created the container was at work
  cut                    \* history: the process died between unloading the key
                         \* and reading the tablespaces once more

settings == <<enabled, loaded, key, keyFile>>
data == <<spaces, forced, aria>>
mariadbVars == <<settings, row, cont, data, admin, ens, failed, raced, cut>>

NoCont == [made |-> FALSE, label |-> "none", mount |-> FALSE, args |-> "none",
           up |-> FALSE, told |-> FALSE]
NoEnsure == [by |-> "none", at |-> "off", mode |-> "none", label |-> "none", ours |-> FALSE]
NoOp == [at |-> "idle", delete |-> FALSE]

\* Operations: set waits for its ensureServer; live, scan, rebuild, unload, after and
\* back are the stages of an unload.
Stages == {"idle", "set", "live", "scan", "rebuild", "unload", "after", "back"}

MariadbTypeOK ==
  /\ enabled \in BOOLEAN /\ loaded \in BOOLEAN /\ key \in BOOLEAN /\ keyFile \in BOOLEAN
  /\ row \in BOOLEAN
  /\ cont \in [made : BOOLEAN, label : Modes, mount : BOOLEAN, args : Modes,
               up : BOOLEAN, told : BOOLEAN]
  /\ cont.made \/ cont = NoCont
  /\ spaces \in {"plain", "part", "encrypted"} /\ forced \in BOOLEAN /\ aria \in BOOLEAN
  /\ admin \in [at : Stages, delete : BOOLEAN]
  /\ ens \in [by : {"none", "deploy", "admin"},
              at : {"off", "begun", "facts", "create", "run", "ready"},
              mode : Modes, label : Modes, ours : BOOLEAN]
  /\ ens.by = "none" <=> ens.at = "off"
  /\ ens.by = "admin" => admin.at \in {"set", "unload", "back"}
  /\ failed \in BOOLEAN /\ raced \in BOOLEAN /\ cut \in BOOLEAN

MariadbInit ==
  /\ enabled = FALSE /\ loaded = FALSE /\ key = FALSE /\ keyFile = FALSE
  /\ row = FALSE /\ cont = NoCont
  /\ spaces = "plain" /\ forced = FALSE /\ aria = FALSE
  /\ admin = NoOp /\ ens = NoEnsure
  /\ failed = FALSE /\ raced = FALSE /\ cut = FALSE

\* modeFor, with the settings as they are now.
Mode == IF ~loaded THEN "none" ELSE IF enabled THEN "encrypt" ELSE "decrypt"

Encrypted == spaces # "plain" \/ forced \/ aria

-----------------------------------------------------------------------------
(* The database, outside this code *)

\* The encryption threads: on their own, and to decrypt once told, whatever the server
\* was started with.
Threads ==
  /\ cont.up
  /\ \/ /\ cont.args = "encrypt" /\ ~cont.told /\ spaces # "encrypted"
        /\ spaces' = IF spaces = "plain" THEN "part" ELSE "encrypted"
     \/ /\ cont.args # "none" /\ cont.told /\ spaces # "plain"
        /\ spaces' = IF spaces = "encrypted" THEN "part" ELSE "plain"
  /\ UNCHANGED <<settings, row, cont, forced, aria, admin, ens, failed, raced, cut>>

\* An application creates an encrypted table, or alters the last one to plain: with
\* the key plugin only.  Aria tables get encrypted in encrypt mode.
Tables ==
  /\ cont.up /\ cont.args # "none"
  /\ \/ forced' = ~forced /\ UNCHANGED aria
     \/ cont.args = "encrypt" /\ aria' = TRUE /\ UNCHANGED forced
  /\ UNCHANGED <<settings, row, cont, spaces, admin, ens, failed, raced, cut>>

\* A server starts with the plugin when its key file is there; without the plugin
\* when its own tablespaces are plain.
Starts(args, mount) ==
  IF args = "none" THEN spaces = "plain" ELSE mount /\ keyFile

-----------------------------------------------------------------------------
(* ensureServer *)

\* Mutant: an operation that was refused ensures the server all the same.
EnsureBegins_Unasked(who) ==
  /\ ens = NoEnsure
  /\ ens' = [NoEnsure EXCEPT !.by = who, !.at = "begun"]
  /\ row' = TRUE
  /\ UNCHANGED <<settings, cont, data, admin, failed, raced, cut>>

\* A deploy, or the operation that waits for it, takes the lock.
EnsureBegins(who) ==
  /\ ens = NoEnsure
  /\ who = "admin" => admin.at \in {"set", "unload", "back"}
  /\ ens' = [NoEnsure EXCEPT !.by = who, !.at = "begun"]
  /\ row' = TRUE
  /\ UNCHANGED <<settings, cont, data, admin, failed, raced, cut>>

\* prepareServerEncryption writes the key file or removes it; serverConfigLabel.
Prepares ==
  /\ ens.at = "begun"
  /\ Mode # "none" => key
  /\ keyFile' = (Mode # "none")
  /\ ens' = [ens EXCEPT !.at = "facts", !.mode = Mode, !.label = Mode]
  /\ UNCHANGED <<enabled, loaded, key, row, cont, data, admin, failed, raced, cut>>

\* Mutant: a container is adopted whatever it was created with.
Adopts_AnyLabel == cont.made

\* The container is the one that is wanted.
Adopts == cont.made /\ cont.label = ens.label

\* A stopped one is started; one with another configuration is removed, and so is a
\* stopped one that docker cannot start on its addresses.
LooksAtContainer ==
  /\ ens.at = "facts"
  /\ \/ /\ Adopts
        /\ cont' = IF cont.up THEN cont
                   ELSE [cont EXCEPT !.up = Starts(cont.args, cont.mount), !.told = FALSE]
        /\ ens' = [ens EXCEPT !.at = "ready", !.ours = TRUE]
     \/ /\ ~Adopts \/ ~cont.up
        /\ cont' = NoCont
        /\ ens' = [ens EXCEPT !.at = "create", !.ours = cont.made]
  /\ UNCHANGED <<settings, row, data, admin, failed, raced, cut>>

\* createServerContainer reads the mode for the label and the mount ...
Creates ==
  /\ ens.at = "create"
  /\ ens' = [ens EXCEPT !.at = "run", !.label = Mode]
  /\ UNCHANGED <<settings, row, cont, data, admin, failed, raced, cut>>

\* ... and, after it asked for the addresses to bind, for the server's arguments.
Runs ==
  /\ ens.at = "run"
  /\ cont' = [made |-> TRUE, label |-> ens.label, mount |-> ens.label # "none", args |-> Mode,
              up |-> Starts(Mode, ens.label # "none"), told |-> FALSE]
  /\ ens' = [ens EXCEPT !.at = "ready"]
  /\ raced' = ~(ens.mode = Mode /\ ens.label = Mode)
  /\ UNCHANGED <<settings, row, data, admin, failed, cut>>

\* Mutant: a set whose ensureServer failed tries again.
Returns_Retries(ok) ==
  IF ens.by # "admin" THEN UNCHANGED <<loaded, admin>>
  ELSE IF admin.at = "unload"
       THEN /\ admin' = [admin EXCEPT !.at = IF ok THEN "after" ELSE "back"]
            /\ loaded' = ~ok
       ELSE admin' = (IF ok THEN NoOp ELSE admin) /\ UNCHANGED loaded

\* What an operation does when its ensureServer has come back: a set is done and
\* reports; an unload reads the tablespaces once more or, when the server did not
\* start, loads the key again.
Returns(ok) ==
  IF ens.by # "admin" THEN UNCHANGED <<loaded, admin>>
  ELSE IF admin.at = "unload"
       THEN /\ admin' = [admin EXCEPT !.at = IF ok THEN "after" ELSE "back"]
            /\ loaded' = ~ok
       ELSE admin' = NoOp /\ UNCHANGED loaded

\* The server is told to decrypt by an ensureServer that read so before it looked at the
\* container, and that found one: also a server it has created since to encrypt.
Tells == cont' = [cont EXCEPT !.told = @ \/ (ens.mode = "decrypt" /\ ens.ours)]

\* The server answers.
Ready ==
  /\ ens.at = "ready" /\ cont.up
  /\ Tells
  /\ ens' = NoEnsure
  /\ failed' = FALSE
  /\ Returns(TRUE)
  /\ UNCHANGED <<enabled, key, keyFile, row, data, raced, cut>>

\* The server does not come up, docker fails at any point, or what follows the statement
\* fails.
EnsureFails ==
  /\ ens.at \in {"begun", "facts", "create", "run", "ready"}
  /\ \/ UNCHANGED cont
     \/ ens.at = "ready" /\ cont.up /\ Tells
  /\ ens' = NoEnsure
  /\ failed' = TRUE
  /\ Returns(FALSE)
  /\ UNCHANGED <<enabled, key, keyFile, row, data, raced, cut>>

-----------------------------------------------------------------------------
(* The operations of an administrator *)

\* Mutant: the switch first, the key when the server is prepared.
Enable_SwitchFirst(writes) ==
  /\ enabled' = TRUE
  /\ loaded' = (loaded \/ writes >= 2)
  /\ key' = (key \/ writes = 3)

\* enable: the key when there is none, loaded, then the switch; the process may die
\* after any of the writes.
Enable(writes) ==
  /\ key' = TRUE
  /\ loaded' = (loaded \/ writes >= 2)
  /\ enabled' = (enabled \/ writes = 3)

\* An operation that changed the mode of a server that exists waits for it.
WaitsForServer(changed) ==
  admin' = IF changed /\ row THEN [at |-> "set", delete |-> FALSE] ELSE admin

SetOn ==
  /\ admin = NoOp
  /\ Enable(3)
  /\ WaitsForServer(Mode # "encrypt")
  /\ UNCHANGED <<keyFile, row, cont, data, ens, failed, raced, cut>>

\* Off; where no server was ever made the key is unloaded at once.
SetOff ==
  /\ admin = NoOp
  /\ enabled' = FALSE
  /\ loaded' = (loaded /\ row)
  /\ WaitsForServer(Mode = "encrypt")
  /\ UNCHANGED <<key, keyFile, row, cont, data, ens, failed, raced, cut>>

\* deleteKey and removeKeyFile, when that was asked for.
Deletes(delete) ==
  /\ key' = (key /\ ~delete)
  /\ keyFile' = (keyFile /\ ~delete)

\* unloadMariadbEncryptionKey: refused while encryption is on; a key that is not
\* loaded is only deleted.
UnloadBegins(delete) ==
  /\ admin = NoOp /\ ~enabled
  /\ IF loaded
     THEN admin' = [at |-> "live", delete |-> delete] /\ UNCHANGED <<key, keyFile>>
     ELSE Deletes(delete) /\ UNCHANGED admin
  /\ UNCHANGED <<enabled, loaded, row, cont, data, ens, failed, raced, cut>>

Refused ==
  admin' = NoOp /\ UNCHANGED <<settings, row, cont, data, ens, failed, raced, cut>>

\* Mutant: only tablespaces fully encrypted keep the key loaded.
Plain_NotEncrypted == spaces # "encrypted"

\* The tablespaces all read as plain.
Plain == spaces = "plain" /\ ~forced

\* unloadRefusal, over what the running server reports.
LiveRead ==
  /\ admin.at = "live"
  /\ IF cont.up /\ cont.args = "decrypt" /\ Plain
     THEN /\ admin' = [admin EXCEPT !.at = "scan"]
          /\ UNCHANGED <<settings, row, cont, data, ens, failed, raced, cut>>
     ELSE Refused

\* markKeyUnloaded.
Unloads ==
  /\ loaded' = FALSE
  /\ admin' = [admin EXCEPT !.at = "unload"]
  /\ UNCHANGED <<enabled, key, keyFile, row, cont, ens, failed, raced, cut>>

\* The check of the Aria tables, which ends in a rebuild when some are encrypted.
Scan ==
  /\ admin.at = "scan"
  /\ \/ Refused
     \/ /\ cont.up /\ aria
        /\ admin' = [admin EXCEPT !.at = "rebuild"]
        /\ UNCHANGED <<settings, row, cont, data, ens, failed, raced, cut>>
     \/ /\ cont.up /\ ~aria
        /\ Unloads /\ UNCHANGED data

\* Some tables cannot be rebuilt: refused.
Rebuild ==
  /\ admin.at = "rebuild"
  /\ \/ Refused
     \/ /\ cont.up /\ cont.args = "decrypt"
        /\ aria' = FALSE
        /\ Unloads /\ UNCHANGED <<spaces, forced>>

\* Mutant: the server came up without the key, that will do.
ReadsAgain_No == TRUE

\* After the restart the tablespaces are read once more.
ReadsAgain == cont.up /\ Plain

\* They are plain and the key may be deleted, or the key is loaded again.
AfterRead ==
  /\ admin.at = "after"
  /\ \/ /\ ReadsAgain
        /\ Deletes(admin.delete)
        /\ admin' = NoOp
        /\ UNCHANGED loaded
     \/ /\ loaded' = TRUE
        /\ admin' = [admin EXCEPT !.at = "back"]
        /\ UNCHANGED <<key, keyFile>>
  /\ UNCHANGED <<enabled, row, cont, data, ens, failed, raced, cut>>

-----------------------------------------------------------------------------
(* Crashes *)

\* What is left when the process dies, and boots: syncKeyFileAtBoot.
Reboots ==
  /\ keyFile' = (keyFile \/ loaded')
  /\ admin' = NoOp /\ ens' = NoEnsure
  /\ failed' = (failed \/ ens # NoEnsure \/ admin # NoOp \/ enabled' # enabled \/ loaded' # loaded)
  /\ cut' = (cut \/ admin.at \in {"unload", "after"})
  /\ UNCHANGED <<row, cont, data, raced>>

Restart ==
  /\ UNCHANGED <<enabled, loaded, key>>
  /\ Reboots

\* It dies between the writes of a set.
DiesInEnable(writes) ==
  /\ admin = NoOp
  /\ Enable(writes)
  /\ Reboots

\* The container stops.
Stops ==
  /\ cont.up
  /\ cont' = [cont EXCEPT !.up = FALSE]
  /\ failed' = TRUE
  /\ UNCHANGED <<settings, row, data, admin, ens, raced, cut>>

MariadbNext ==
  \/ Threads \/ Tables \/ Stops
  \/ \E who \in {"deploy", "admin"} : EnsureBegins(who)
  \/ Prepares \/ LooksAtContainer \/ Creates \/ Runs \/ Ready \/ EnsureFails
  \/ SetOn \/ SetOff
  \/ \E delete \in BOOLEAN : UnloadBegins(delete)
  \/ LiveRead \/ Scan \/ Rebuild \/ AfterRead
  \/ Restart \/ \E writes \in 1..2 : DiesInEnable(writes)

MariadbSpec == MariadbInit /\ [][MariadbNext]_mariadbVars

\* The lock is first come, first served; what began goes on.
MariadbFairness ==
  /\ SF_mariadbVars(EnsureBegins("admin"))
  /\ WF_mariadbVars(Prepares) /\ WF_mariadbVars(LooksAtContainer) /\ WF_mariadbVars(Creates) /\ WF_mariadbVars(Runs)
  /\ WF_mariadbVars(Ready \/ EnsureFails)
  /\ WF_mariadbVars(LiveRead) /\ WF_mariadbVars(Scan) /\ WF_mariadbVars(Rebuild) /\ WF_mariadbVars(AfterRead)

MariadbFairSpec == MariadbSpec /\ MariadbFairness

-----------------------------------------------------------------------------
(* Properties *)

\* Settings that ask for the key plugin always have a key: also when the process
\* dies between two writes of a set, and when a key is deleted.
LoadedHasKey == enabled \/ loaded => key

\* The key is deleted only when nothing is encrypted with it, whatever applications
\* and deploys do while it is being unloaded, as long as no crash cuts that short.
KeyOutlivesData == ~key /\ ~cut => ~Encrypted

\* ... which the module's header says without that restriction.
KeyAlwaysOutlivesData == ~key => ~Encrypted

\* With no operation and no ensureServer under way, after one that succeeded, the
\* server runs with the label that the settings want, whichever deploy read them
\* earlier.  It was also started as they say, and a server that is to encrypt has not
\* been told to decrypt, unless they changed while the container was being created:
\* then a deploy that read them before can have the last word.
ServesAsConfigured ==
  admin = NoOp /\ ens = NoEnsure /\ row /\ ~failed =>
    /\ cont.up /\ cont.label = Mode
    /\ raced \/ (cont.args = Mode /\ (Mode = "encrypt" => ~cont.told))

\* ... which the comment on the label says without that restriction.
LabelIsConfiguration ==
  admin = NoOp /\ ens = NoEnsure /\ row /\ ~failed => cont.args = cont.label

\* A server that runs without the key plugin has nothing encrypted, except while an
\* unload is about to find that out, after an ensureServer that failed and none since
\* that succeeded, or once the process died in the middle of an unload.
NeverBlind ==
  cont.up /\ cont.args = "none" /\ Encrypted =>
    admin.at \in {"unload", "after", "back"} \/ failed \/ cut

\* An operation comes to its end.
OperationsEnd == admin # NoOp ~> admin = NoOp
=============================================================================
