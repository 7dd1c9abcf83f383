----------------------------- MODULE ServerFiles -----------------------------
(***************************************************************************)
(* The data directory of a Server: its managed CA and certificates, its    *)
(* ACME account, its configuration and its database, as the running        *)
(* Server, the commands that take its lock (init and the set-up page,      *)
(* cert renew, cert restore-ca, restore) and the commands that take none   *)
(* (cert status, doctor, cert export-ca, cert backup-ca, backup) read and  *)
(* change them, one file at a time, and as a kill leaves them.             *)
(*                                                                         *)
(* Keys, certificates and contents of the database are numbers.  Of a kept *)
(* directory only the CA in it matters.  What is known to go wrong is      *)
(* recorded in mishaps, so that a property says which of it it excludes.   *)
(***************************************************************************)
EXTENDS Naturals, FiniteSets

CONSTANTS
    Budgets,   \* scenarios: what may happen how often, see BudgetAssumption
    Life,      \* lifetime of a certificate
    Renew,     \* it is renewed that long before its end
    Nothing

Counters == {"ids", "ticks", "kills", "faults", "unlocked", "starts", "commands", "backups"}
Modes == {"local", "managed", "acme", "external"}
Operations == {"init", "setup", "renew", "restoreca", "restoredb", "write", "external"}

ASSUME BudgetAssumption ==
    /\ Life \in Nat /\ Renew \in 1..Life
    /\ \A b \in Budgets : DOMAIN b = Counters \cup {"ops", "configs"}
    /\ \A b \in Budgets : \A k \in Counters : b[k] \in Nat
    /\ \A b \in Budgets : b.ops \subseteq Operations
    /\ \A b \in Budgets : \A c \in b.configs :
          c.mode \in Modes

\* Certificates, the four files of pki/managed, and what a Server serves.
Configs == UNION {b.configs : b \in Budgets}
ConfigHosts == {c.host : c \in Configs}
Ids == Nat \cup {Nothing}
Certificates == [n : Nat, issuer : Ids, host : ConfigHosts, born : Nat]
Directories == [ca : Ids, cakey : Ids, cert : Certificates \cup {Nothing}, key : Ids]
Pairs == [cert : Certificates, key : Nat]

ASSUME NothingAssumption ==
    Nothing \notin Nat \cup Certificates \cup Directories \cup Pairs

VARIABLES
    budget,    \* what may still happen
    now,
    next,      \* the next new key, certificate or content
    config,    \* server.toml, or Nothing
    setup,     \* the set-up page: "off", "readonly", "open", "session", "apply" or "invite"
    cur,       \* pki/managed, or Nothing
    moved,     \* the directory a command has moved aside
    kept,      \* CAs in directories left aside for good
    proc,      \* certificate provider of each process
    cmd,       \* the command that holds the lock
    served,    \* the Server's certificate in memory, or Nothing
    ext,       \* certificate and key the operator maintains
    acct,      \* pki/acme
    archive,   \* CAs in recovery packages
    db, wal,   \* server.db and the content in its write-ahead log, or Nothing
    vacuumed,  \* content a backup has copied out of the database, or Nothing
    snaps,     \* contents of backup packages
    pre,       \* contents in server.db.pre-restore files
    truth, replaced,    \* last content written or restored; contents a restore replaced
    given, latest,      \* CAs handed out to clients, and the last of them
    mishaps

pki == <<cur, moved, kept>>
data == <<db, wal, vacuumed, snaps, pre, truth, replaced>>
clients == <<given, latest>>
filesVars == <<budget, now, next, config, setup, pki, proc, cmd, served, ext, acct, archive, data,
          clients, mishaps>>

Actors == {"server", "unlocked", "command"}
Off == [at |-> "off"]
Directory == [ca |-> Nothing, cakey |-> Nothing, cert |-> Nothing, key |-> Nothing]

FilesInit ==
    /\ budget \in Budgets /\ now = 0 /\ next = 1 /\ config = Nothing /\ setup = "off"
    /\ cur = Nothing /\ moved = Nothing /\ kept = {}
    /\ proc = [a \in Actors |-> Off] /\ cmd = Off /\ served = Nothing
    /\ ext = [cert |-> Nothing, key |-> Nothing]
    /\ acct = [key |-> Nothing, reg |-> Nothing, bundle |-> Nothing]
    /\ archive = {}
    /\ db = 0 /\ wal = Nothing /\ vacuumed = Nothing /\ snaps = {} /\ pre = {} /\ truth = 0 /\ replaced = {}
    /\ given = {} /\ latest = Nothing /\ mishaps = {}

Spend(k) == budget[k] > 0 /\ budget' = [budget EXCEPT ![k] = @ - 1]

\* A new key, certificate or content.
New == next <= budget.ids /\ next' = next + 1

\* There is a configuration a command or a Server can load.
Loaded == config # Nothing

\* Nobody holds server.lock.
Unlocked == proc["server"] = Off /\ cmd = Off

-----------------------------------------------------------------------------
(* Certificates *)

Leaf(n, issuer, host) == [n |-> n, issuer |-> issuer, host |-> host, born |-> now]

\* Valid, as a likely mistake would have it: the key is not compared.
ValidCert(cert, key, host) ==
    /\ cert # Nothing /\ key # Nothing
    /\ cert.host = host /\ now < cert.born + Life

\* loadValidatedKeyPair
Valid(cert, key, host) ==
    /\ cert # Nothing /\ key = cert.n
    /\ cert.host = host /\ now < cert.born + Life

Fresh(cert) == cert.born + Life > now + Renew

\* loadManagedCA
CAUsable(d) == d # Nothing /\ d.ca # Nothing /\ d.cakey = d.ca

Pair(cert, key) == [cert |-> cert, key |-> key]

\* newCertificateProvider; again: a forced renewal follows.
Provider(c, again) ==
    [at |-> CASE c.mode = "managed" -> "prepare" [] c.mode = "acme" -> "account"
              [] c.mode = "external" -> "reload" [] OTHER -> "idle",
     mode |-> c.mode, host |-> c.host, force |-> FALSE, again |-> again, ca |-> Nothing, leaf |-> Nothing]

IsAt(a, state) == proc[a].at = state
To(a, state) == proc' = [proc EXCEPT ![a].at = state]

\* A provider is done, with a pair or with an error: the Server keeps the
\* certificate it has, and does not start without one unless it has ACME.
ProviderDone(a, pair) ==
    /\ proc' = [proc EXCEPT ![a] =
          IF a = "server"
          THEN [proc[a] EXCEPT !.ca = Nothing, !.leaf = Nothing,
                               !.at = IF pair = Nothing /\ served = Nothing /\ proc[a].mode # "acme"
                                      THEN "failed" ELSE "idle"]
          ELSE IF proc[a].again /\ pair # Nothing
          THEN [proc[a] EXCEPT !.at = "load", !.force = TRUE, !.again = FALSE, !.leaf = Nothing]
          ELSE Off]
    /\ served' = IF a = "server" /\ pair # Nothing THEN pair ELSE served

UnchangedByProvider == <<now, config, setup, moved, kept, cmd, ext, archive, data, clients>>

\* preparePKIDirectory
Prepare(a) ==
    /\ IsAt(a, "prepare") /\ To(a, "look")
    /\ cur' = IF cur = Nothing THEN Directory ELSE cur
    /\ UNCHANGED <<UnchangedByProvider, budget, next, served, acct, mishaps>>

\* ensureManaged: a directory without ca.pem gets a root of its own.
Look(a) ==
    /\ IsAt(a, "look")
    /\ IF cur = Nothing \/ cur.ca = Nothing
       THEN /\ New
            /\ proc' = [proc EXCEPT ![a].at = "rootkey", ![a].ca = next]
            /\ mishaps' = IF \E b \in Actors \ {a} : proc[b].at \in {"rootkey", "rootcert"}
                          THEN mishaps \cup {"roots"} ELSE mishaps
       ELSE To(a, "load") /\ UNCHANGED <<next, mishaps>>
    /\ UNCHANGED <<UnchangedByProvider, budget, cur, served, acct>>

\* renewManaged: the pair on disk will do, or the CA issues a new one.
LoadManaged(a) ==
    /\ IsAt(a, "load")
    /\ LET host == proc[a].host IN
       IF ~proc[a].force /\ cur # Nothing /\ Valid(cur.cert, cur.key, host) /\ Fresh(cur.cert)
       THEN ProviderDone(a, Pair(cur.cert, cur.key)) /\ UNCHANGED next
       ELSE IF CAUsable(cur)
       THEN /\ New
            /\ proc' = [proc EXCEPT ![a].at = "writekey", ![a].leaf = Leaf(next, cur.ca, host)]
            /\ UNCHANGED served
       ELSE ProviderDone(a, Nothing) /\ UNCHANGED next
    /\ UNCHANGED <<UnchangedByProvider, budget, cur, acct, mishaps>>

\* createManagedRoot and renewManaged write four files, each after the other.
Writes == {"rootkey", "rootcert", "writekey", "writecert"}

AfterWrite == [rootkey |-> "rootcert", rootcert |-> "load", writekey |-> "writecert",
               writecert |-> "check"]

Written(a) ==
    CASE IsAt(a, "rootkey")  -> [cur EXCEPT !.cakey = proc[a].ca]
      [] IsAt(a, "rootcert") -> [cur EXCEPT !.ca = proc[a].ca]
      [] IsAt(a, "writekey") -> [cur EXCEPT !.key = proc[a].leaf.n]
      [] OTHER             -> [cur EXCEPT !.cert = proc[a].leaf]

WriteFile(a) ==
    /\ proc[a].at \in Writes /\ cur # Nothing
    /\ cur' = Written(a) /\ To(a, AfterWrite[proc[a].at])
    /\ UNCHANGED <<UnchangedByProvider, budget, next, served, acct, mishaps>>

\* A write fails when the directory has been moved away; when the disk fails,
\* the file may have its new content all the same.
WriteFails(a) ==
    /\ proc[a].at \in Writes
    /\ \/ cur = Nothing /\ UNCHANGED <<cur, budget>>
       \/ cur # Nothing /\ Spend("faults") /\ cur' \in {cur, Written(a)}
    /\ ProviderDone(a, Nothing)
    /\ UNCHANGED <<UnchangedByProvider, next, acct, mishaps>>

\* What was written is read again: another renewal may have come between.
CheckManaged(a) ==
    /\ IsAt(a, "check")
    /\ ProviderDone(a, IF cur # Nothing /\ Valid(cur.cert, cur.key, proc[a].host)
                       THEN Pair(cur.cert, cur.key) ELSE Nothing)
    /\ UNCHANGED <<UnchangedByProvider, budget, next, cur, acct, mishaps>>

ManagedStep(a) ==
    \/ Prepare(a) \/ Look(a) \/ LoadManaged(a) \/ WriteFile(a) \/ WriteFails(a) \/ CheckManaged(a)

\* reloadExternal
ReloadExternal(a) ==
    /\ IsAt(a, "reload")
    /\ ProviderDone(a, IF Valid(ext.cert, ext.key, proc[a].host) THEN Pair(ext.cert, ext.key) ELSE Nothing)
    /\ UNCHANGED <<UnchangedByProvider, budget, next, cur, acct, mishaps>>

\* The operator's own renewal writes two files.
ReplaceExternalCert(host) ==
    /\ "external" \in budget.ops /\ New
    /\ ext' = [ext EXCEPT !.cert = Leaf(next, Nothing, host)]
    /\ UNCHANGED <<budget, now, config, setup, pki, proc, cmd, served, acct, archive, data, clients,
                   mishaps>>

ReplaceExternalKey ==
    /\ ext.cert # Nothing /\ ext.key # ext.cert.n
    /\ ext' = [ext EXCEPT !.key = ext.cert.n]
    /\ UNCHANGED <<budget, now, next, config, setup, pki, proc, cmd, served, acct, archive, data,
                   clients, mishaps>>

-----------------------------------------------------------------------------
(* ACME: Renew, under the mutex of its process.  proc[a].ca is the account   *)
(* key and proc[a].leaf the registration it works with.                      *)

\* LoadAccount, as a likely mistake would have it: a new key is not stored.
LoadAccountOnly(a) ==
    /\ IsAt(a, "account")
    /\ IF acct.key # Nothing THEN UNCHANGED next ELSE New
    /\ proc' = [proc EXCEPT ![a].at = "registration",
                            ![a].ca = IF acct.key # Nothing THEN acct.key ELSE next]
    /\ UNCHANGED <<UnchangedByProvider, budget, cur, served, acct, mishaps>>

\* loadOrCreateAccountKey: a key that is not there is created ...
LoadAccount(a) ==
    /\ IsAt(a, "account")
    /\ IF acct.key # Nothing
       THEN /\ proc' = [proc EXCEPT ![a].at = "registration", ![a].ca = acct.key]
            /\ UNCHANGED next
       ELSE New /\ proc' = [proc EXCEPT ![a].at = "accountkey", ![a].ca = next]
    /\ UNCHANGED <<UnchangedByProvider, budget, cur, served, acct, mishaps>>

\* ... and stored before it is used.
StoreAccount(a) ==
    /\ IsAt(a, "accountkey") /\ To(a, "registration")
    /\ acct' = [acct EXCEPT !.key = proc[a].ca]
    /\ UNCHANGED <<UnchangedByProvider, budget, next, cur, served, mishaps>>

\* client
LoadRegistration(a) ==
    /\ IsAt(a, "registration")
    /\ proc' = [proc EXCEPT ![a].at = IF acct.reg = Nothing THEN "register" ELSE "obtain",
                            ![a].leaf = acct.reg]
    /\ UNCHANGED <<UnchangedByProvider, budget, next, cur, served, acct, mishaps>>

\* The authority knows an account by its key; the registration is stored.
RegisterAccount(a) ==
    /\ IsAt(a, "register")
    /\ acct' = [acct EXCEPT !.reg = proc[a].ca]
    /\ proc' = [proc EXCEPT ![a].at = "obtain", ![a].leaf = proc[a].ca]
    /\ UNCHANGED <<UnchangedByProvider, budget, next, cur, served, mishaps>>

\* Challenge, issue, stage, validate and rename: certificate and key are one file.
Obtain(a) ==
    /\ IsAt(a, "obtain") /\ proc[a].leaf = proc[a].ca /\ New
    /\ LET leaf == Leaf(next, Nothing, proc[a].host) IN
       /\ acct' = [acct EXCEPT !.bundle = leaf]
       /\ ProviderDone(a, Pair(leaf, leaf.n))
    /\ UNCHANGED <<UnchangedByProvider, budget, cur, mishaps>>

\* Refused by the authority, as it is always for another account's key, or by
\* the disk, which may have stored the file all the same.
AcmeFails(a) ==
    /\ proc[a].at \in {"accountkey", "register", "obtain"}
    /\ IF IsAt(a, "obtain") /\ proc[a].leaf # proc[a].ca THEN UNCHANGED budget ELSE Spend("faults")
    /\ \/ UNCHANGED <<acct, next>>
       \/ IsAt(a, "accountkey") /\ acct' = [acct EXCEPT !.key = proc[a].ca] /\ UNCHANGED next
       \/ IsAt(a, "register") /\ acct' = [acct EXCEPT !.reg = proc[a].ca] /\ UNCHANGED next
       \/ /\ IsAt(a, "obtain") /\ proc[a].leaf = proc[a].ca /\ New
          /\ acct' = [acct EXCEPT !.bundle = Leaf(next, Nothing, proc[a].host)]
    /\ ProviderDone(a, Nothing)
    /\ UNCHANGED <<UnchangedByProvider, cur, mishaps>>

AcmeStep(a) ==
    \/ LoadAccount(a) \/ StoreAccount(a) \/ LoadRegistration(a) \/ RegisterAccount(a) \/ Obtain(a)
    \/ AcmeFails(a)

-----------------------------------------------------------------------------
(* The running Server *)

Serving == proc["server"] # Off /\ proc["server"].at = "idle"

\* Two providers of the ACME account at once.
TwoAccounts(a, c) ==
    IF c.mode = "acme" /\ \E b \in Actors \ {a} : proc[b] # Off
    THEN mishaps \cup {"acme"} ELSE mishaps

\* Run: with the lock, and with the certificate the ACME directory has.
ServerStart ==
    /\ Unlocked /\ Loaded /\ Spend("starts")
    /\ LET p == Provider(config, FALSE) IN
       IF config.mode = "acme"
       THEN /\ proc' = [proc EXCEPT !["server"] = [p EXCEPT !.at = "idle"]]
            /\ served' = IF acct.bundle # Nothing /\ Valid(acct.bundle, acct.bundle.n, config.host)
                         THEN Pair(acct.bundle, acct.bundle.n) ELSE Nothing
       ELSE proc' = [proc EXCEPT !["server"] = p] /\ served' = Nothing
    /\ mishaps' = TwoAccounts("server", config)
    /\ UNCHANGED <<now, next, config, setup, pki, cmd, ext, acct, archive, data, clients>>

\* watchManaged, watchExternal, renewalLoop
Watch ==
    /\ Serving
    /\ LET mode == proc["server"].mode IN
       /\ mode # "local"
       /\ mode = "managed" => ~(Valid(cur.cert, cur.key, proc["server"].host) /\ Fresh(cur.cert)
                                /\ served = Pair(cur.cert, cur.key))
       /\ mode = "external" => ext # [cert |-> served.cert, key |-> served.key]
       /\ mode = "acme" => (IF served = Nothing THEN TRUE ELSE ~Fresh(served.cert))
       /\ To("server", CASE mode = "managed" -> "load" [] mode = "acme" -> "account"
                         [] OTHER -> "reload")
    /\ UNCHANGED <<UnchangedByProvider, budget, next, cur, served, acct, mishaps>>

Tick ==
    /\ Spend("ticks") /\ now' = now + 1
    /\ UNCHANGED <<next, config, setup, pki, proc, cmd, served, ext, acct, archive, data, clients,
                   mishaps>>

\* The content of the database, whatever file it is in.
Visible == IF wal # Nothing THEN wal ELSE db

\* The last connection is closed.
Checkpoint == db' = Visible /\ wal' = Nothing

Write ==
    /\ Serving /\ "write" \in budget.ops /\ New
    /\ wal' = next /\ truth' = next
    /\ UNCHANGED <<budget, now, config, setup, pki, proc, cmd, served, ext, acct, archive, db, vacuumed,
                   snaps, pre, replaced, clients, mishaps>>

ServerStop ==
    /\ proc["server"].at \in {"idle", "failed"}
    /\ proc' = [proc EXCEPT !["server"] = Off] /\ served' = Nothing
    /\ Checkpoint
    /\ UNCHANGED <<budget, now, next, config, setup, pki, cmd, ext, acct, archive, vacuumed, snaps, pre, truth,
                   replaced, clients, mishaps>>

-----------------------------------------------------------------------------
(* Commands that hold the lock.  Staging happens in a directory of its own,  *)
(* so it is one step; what it does to pki/managed is not.                    *)

Steps == {"stash", "swap", "sync", "save", "commit", "remove",
          "putback", "undo"}

\* A command is about to change pki/managed or is in the middle of it.
Swapping == cmd # Off /\ cmd.kind \in {"init", "restoreca"} /\ cmd.at \in Steps

UnchangedByCommand == <<now, ext, acct, archive, data, served>>

Command(kind, at, c, staged, had) ==
    [kind |-> kind, at |-> at, cfg |-> c, staged |-> staged, had |-> had, last |-> latest]

CmdTo(at) == cmd' = [cmd EXCEPT !.at = at]

\* What is staged for init, as a likely mistake would have it: a CA of its own.
StagedNew(c) == [ca |-> next, cakey |-> next, cert |-> Leaf(next + 1, next, c.host), key |-> next + 1]

\* stageManagedCertificate: the CA there is, with a certificate for the new host.
Staged(c) ==
    LET ca == IF cur = Nothing THEN next ELSE cur.ca IN
    [ca |-> ca, cakey |-> ca, cert |-> Leaf(next + 1, ca, c.host), key |-> next + 1]

\* initializeServer, with or without a configuration it replaces.
Initialize(c) ==
    /\ Unlocked /\ "init" \in budget.ops /\ Spend("commands")
    /\ c.mode = "external" => Valid(ext.cert, ext.key, c.host)
    /\ IF c.mode = "managed"
       THEN /\ cur # Nothing => CAUsable(cur)
            /\ next < budget.ids /\ next' = next + 2
            /\ cmd' = Command("init", IF cur # Nothing THEN "stash" ELSE "swap", c, Staged(c), cur # Nothing)
            /\ mishaps' = IF proc["unlocked"] # Off THEN mishaps \cup {"overlap"} ELSE mishaps
       ELSE /\ cmd' = Command("init", "save", c, Nothing, FALSE)
            /\ UNCHANGED <<next, mishaps>>
    /\ UNCHANGED <<UnchangedByCommand, config, pki, proc, clients>>

\* What the operator asks init for, by options or at its prompts.
InitStart == UNCHANGED setup /\ \E c \in budget.configs : Initialize(c)

\* apply: the form of the set-up page.
Apply == setup = "session" /\ setup' = "apply" /\ \E c \in budget.configs : Initialize(c)

\* restoreManagedCA
RestoreCAStart ==
    /\ Unlocked /\ "restoreca" \in budget.ops /\ Spend("commands")
    /\ Loaded /\ config.mode = "managed" /\ New
    /\ \E ca \in archive :
          cmd' = Command("restoreca", IF cur # Nothing THEN "stash" ELSE "swap", config,
                         [ca |-> ca, cakey |-> ca, cert |-> Leaf(next, ca, config.host), key |-> next],
                         cur # Nothing)
    /\ mishaps' = IF proc["unlocked"] # Off THEN mishaps \cup {"overlap"} ELSE mishaps
    /\ UNCHANGED <<UnchangedByCommand, config, setup, pki, proc, clients>>

\* install: the directory there is is moved aside ...
Stash ==
    /\ cmd.at = "stash" /\ CmdTo("swap")
    /\ moved' = cur /\ cur' = Nothing
    /\ UNCHANGED <<UnchangedByCommand, budget, next, config, setup, kept, proc, clients, mishaps>>

\* A directory can be renamed to a place where nothing or an empty one is.
Vacant == cur = Nothing \/ cur = Directory

\* ... and the staged one takes its place.
Swap ==
    /\ cmd.at = "swap" /\ Vacant /\ CmdTo("sync")
    /\ cur' = cmd.staged
    /\ latest' = IF cmd.kind = "restoreca" /\ latest # Nothing THEN cmd.staged.ca ELSE latest
    /\ UNCHANGED <<UnchangedByCommand, budget, next, config, setup, moved, kept, proc, given, mishaps>>

\* The command ends; the set-up page goes on with its invitation or its form.
Ended(ok) ==
    /\ cmd' = Off
    /\ setup' = IF setup # "apply" THEN setup ELSE IF ok THEN "invite" ELSE "session"

\* The directory that was moved aside is renamed back, or left if it cannot be.
MovedBack ==
    /\ IF Vacant /\ moved # Nothing
       THEN cur' = moved /\ UNCHANGED kept
       ELSE kept' = kept \cup (IF moved = Nothing THEN {} ELSE {moved.ca}) /\ UNCHANGED cur
    /\ moved' = Nothing

SwapFails ==
    /\ cmd.at = "swap"
    /\ IF Vacant THEN Spend("faults") ELSE UNCHANGED budget
    /\ MovedBack /\ Ended(FALSE)
    /\ UNCHANGED <<UnchangedByCommand, next, config, proc, clients, mishaps>>

\* restore-ca keeps the directory it moved aside, init goes on to the configuration.
Sync ==
    /\ cmd.at = "sync"
    /\ IF cmd.kind = "init"
       THEN CmdTo("save") /\ UNCHANGED <<setup, moved, kept>>
       ELSE /\ Ended(TRUE) /\ moved' = Nothing
            /\ kept' = kept \cup (IF moved = Nothing THEN {} ELSE {moved.ca})
    /\ UNCHANGED <<UnchangedByCommand, budget, next, config, cur, proc, clients, mishaps>>

SyncFails ==
    /\ cmd.at = "sync" /\ Spend("faults")
    /\ CmdTo(IF cmd.kind = "init" THEN "remove" ELSE "undo")
    /\ UNCHANGED <<UnchangedByCommand, next, config, setup, pki, proc, clients, mishaps>>

Save ==
    /\ cmd.at = "save" /\ CmdTo("commit")
    /\ config' = cmd.cfg
    /\ UNCHANGED <<UnchangedByCommand, budget, next, setup, pki, proc, clients, mishaps>>

\* commit, and doctor, which builds a provider under the lock.
Commit ==
    /\ cmd.at = "commit" /\ moved' = Nothing
    /\ IF cmd.cfg.mode \in {"managed", "external"}
       THEN /\ proc' = [proc EXCEPT !["command"] = Provider(cmd.cfg, FALSE)]
            /\ CmdTo("provider") /\ UNCHANGED setup
       ELSE Ended(TRUE) /\ UNCHANGED proc
    /\ UNCHANGED <<UnchangedByCommand, budget, next, config, cur, kept, clients, mishaps>>

\* The file may have its new content although Save fails.
SaveFails ==
    /\ cmd.at = "save" /\ Spend("faults")
    /\ config' \in {config, cmd.cfg}
    /\ IF cmd.staged # Nothing THEN CmdTo("remove") /\ UNCHANGED setup ELSE Ended(FALSE)
    /\ UNCHANGED <<UnchangedByCommand, next, pki, proc, clients, mishaps>>

\* rollback, as a likely mistake would have it: nothing is renamed back.
RemoveOnly ==
    /\ cmd.at = "remove" /\ Ended(FALSE)
    /\ cur' = Nothing /\ moved' = Nothing
    /\ kept' = kept \cup (IF moved = Nothing THEN {} ELSE {moved.ca})
    /\ UNCHANGED <<UnchangedByCommand, budget, next, config, proc, clients, mishaps>>

\* rollback: the new directory is removed ...
Remove ==
    /\ cmd.at = "remove"
    /\ cur' = Nothing
    /\ IF cmd.had THEN CmdTo("putback") /\ UNCHANGED setup ELSE Ended(FALSE)
    /\ UNCHANGED <<UnchangedByCommand, budget, next, config, moved, kept, proc, clients, mishaps>>

\* restore-ca renames it to where it was staged ...
Undo ==
    /\ cmd.at = "undo" /\ CmdTo("putback")
    /\ cur' = Nothing /\ latest' = cmd.last
    /\ UNCHANGED <<UnchangedByCommand, budget, next, config, setup, moved, kept, proc, given, mishaps>>

\* ... and the old one is renamed back.
PutBack ==
    /\ cmd.at = "putback" /\ MovedBack /\ Ended(FALSE)
    /\ UNCHANGED <<UnchangedByCommand, budget, next, config, proc, clients, mishaps>>

\* A removal that stops half way leaves any of the files.
Remnants(d) == {[f \in DOMAIN d |-> IF f \in F THEN d[f] ELSE Nothing] : F \in SUBSET DOMAIN d}

RemoveFails ==
    /\ cmd.at = "remove" /\ Spend("faults") /\ cur # Nothing
    /\ cur' \in Remnants(cur) /\ moved' = Nothing
    /\ kept' = kept \cup (IF moved = Nothing THEN {} ELSE {moved.ca})
    /\ Ended(FALSE) /\ mishaps' = mishaps \cup {"rollback"}
    /\ UNCHANGED <<UnchangedByCommand, next, config, proc, clients>>

\* cert renew: a provider, and in managed mode a renewal that is forced.
RenewStart ==
    /\ Unlocked /\ "renew" \in budget.ops /\ Spend("commands")
    /\ Loaded /\ config.mode # "local"
    /\ proc' = [proc EXCEPT !["command"] = Provider(config, config.mode = "managed")]
    /\ cmd' = Command("renew", "provider", config, Nothing, FALSE)
    /\ mishaps' = TwoAccounts("command", config)
    /\ UNCHANGED <<UnchangedByCommand, next, config, setup, pki, clients>>

ProviderEnds ==
    /\ cmd.at = "provider" /\ proc["command"] = Off /\ Ended(TRUE)
    /\ UNCHANGED <<UnchangedByCommand, budget, next, config, pki, proc, clients, mishaps>>

CommandStep ==
    \/ InitStart \/ Apply \/ RestoreCAStart \/ Stash \/ Swap \/ SwapFails \/ Sync \/ SyncFails \/ Save \/ SaveFails
    \/ Commit
    \/ Remove \/ Undo \/ PutBack \/ RemoveFails \/ RenewStart \/ ProviderEnds

-----------------------------------------------------------------------------
(* restore and backup of the database *)

\* restoreServer: the configuration is loaded and the lock is taken.
RestoreStart ==
    /\ Unlocked /\ "restoredb" \in budget.ops /\ Spend("commands")
    /\ Loaded
    /\ cmd' = Command("restoredb", "extract", config, Nothing, FALSE)
    /\ mishaps' = IF wal # Nothing THEN mishaps \cup {"restore"} ELSE mishaps
    /\ UNCHANGED <<now, next, config, setup, pki, proc, served, ext, acct, archive, data, clients>>

UnchangedByRestore ==
    <<budget, now, next, config, pki, proc, served, ext, acct, archive, wal, vacuumed, snaps,
      clients, mishaps>>

\* RestoreExtract, as a likely mistake would have it: nothing is copied first.
RestoreAtOnce ==
    /\ cmd.at = "extract"
    /\ \E s \in snaps : cmd' = [cmd EXCEPT !.at = "install", !.staged = s]
    /\ UNCHANGED <<UnchangedByRestore, setup, db, pre, truth, replaced>>

\* extractBackupArchive: a package is unpacked and compared with its manifest.
RestoreExtract ==
    /\ cmd.at = "extract"
    /\ \E s \in snaps : cmd' = [cmd EXCEPT !.at = "copy", !.staged = s]
    /\ UNCHANGED <<UnchangedByRestore, setup, db, pre, truth, replaced>>

\* The package or the disk is at fault.
RestoreFails ==
    /\ cmd.at \in {"extract", "copy"} /\ Ended(FALSE)
    /\ UNCHANGED <<UnchangedByRestore, db, pre, truth, replaced>>

\* server.db is copied; its write-ahead log is not.
RestoreCopy ==
    /\ cmd.at = "copy" /\ CmdTo("install")
    /\ pre' = pre \cup {db}
    /\ UNCHANGED <<UnchangedByRestore, setup, db, truth, replaced>>

RestoreInstall ==
    /\ cmd.at = "install" /\ Ended(TRUE)
    /\ db' = cmd.staged /\ truth' = cmd.staged /\ replaced' = replaced \cup {Visible}
    /\ UNCHANGED <<UnchangedByRestore, pre>>

\* backupServer, without the lock: the database is copied, and the last to
\* close it writes it out ...
BackupSnapshot ==
    /\ Loaded /\ vacuumed = Nothing /\ Spend("backups")
    /\ vacuumed' = Visible
    /\ IF proc["server"] = Off THEN Checkpoint ELSE UNCHANGED <<db, wal>>
    /\ UNCHANGED <<now, next, config, setup, pki, proc, cmd, served, ext, acct, archive, snaps,
                   pre, truth, replaced, clients, mishaps>>

\* ... and the copy is packed, which may fail.
BackupPack ==
    /\ vacuumed # Nothing /\ vacuumed' = Nothing
    /\ snaps' \in {snaps, snaps \cup {vacuumed}}
    /\ UNCHANGED <<budget, now, next, config, setup, pki, proc, cmd, served, ext, acct, archive, db,
                   wal, pre, truth, replaced, clients, mishaps>>

-----------------------------------------------------------------------------
(* The set-up page, the commands without the lock, and a kill *)

\* setupServer: a page opened while the Server runs stays read-only.
SetupOpen ==
    /\ "setup" \in budget.ops /\ setup = "off" /\ Spend("starts")
    /\ setup' = IF Loaded /\ ~Unlocked THEN "readonly" ELSE "open"
    /\ UNCHANGED <<now, next, config, pki, proc, cmd, served, ext, acct, archive, data, clients,
                   mishaps>>

\* exchange: the token works once.
SetupExchange ==
    /\ setup = "open" /\ setup' = "session"
    /\ UNCHANGED <<budget, now, next, config, pki, proc, cmd, served, ext, acct, archive, data,
                   clients, mishaps>>

\* createInitialNodeInvitation, when the lock has been given back.
SetupInvite ==
    /\ setup = "invite" /\ setup' = "off" /\ New
    /\ truth' = next
    /\ IF proc["server"] = Off THEN db' = next /\ wal' = Nothing ELSE wal' = next /\ UNCHANGED db
    /\ mishaps' = IF cmd # Off /\ cmd.kind = "restoredb" THEN mishaps \cup {"restore"} ELSE mishaps
    /\ UNCHANGED <<budget, now, config, pki, proc, cmd, served, ext, acct, archive, vacuumed, snaps, pre,
                   replaced, clients>>

\* It expires, or the invitation fails, which the page passes over.
SetupEnds ==
    /\ setup \in {"readonly", "open", "session", "invite"} /\ setup' = "off"
    /\ UNCHANGED <<budget, now, next, config, pki, proc, cmd, served, ext, acct, archive, data,
                   clients, mishaps>>

\* cert status and doctor build a provider, beside whoever holds the lock.
StatusStart ==
    /\ proc["unlocked"] = Off /\ Spend("unlocked")
    /\ Loaded /\ config.mode # "local"
    /\ proc' = [proc EXCEPT !["unlocked"] = Provider(config, FALSE)]
    /\ mishaps' = TwoAccounts("unlocked", config)
                    \cup (IF config.mode = "managed" /\ Swapping THEN {"overlap"} ELSE {})
    /\ UNCHANGED <<now, next, config, setup, pki, cmd, served, ext, acct, archive, data, clients>>

\* With ACME they end whatever their renewal loop is doing.
StatusEnds ==
    /\ proc["unlocked"] # Off /\ proc["unlocked"].mode = "acme"
    /\ proc' = [proc EXCEPT !["unlocked"] = Off]
    /\ UNCHANGED <<budget, now, next, config, setup, pki, cmd, served, ext, acct, archive, data,
                   clients, mishaps>>

\* export-ca, the trust page, invitations: clients get the root that is there.
HandOut ==
    /\ Loaded /\ config.mode = "managed" /\ cur # Nothing /\ cur.ca # Nothing
    /\ given' = given \cup {cur.ca} /\ latest' = cur.ca
    /\ mishaps' = IF Swapping THEN mishaps \cup {"overlap"} ELSE mishaps
    /\ UNCHANGED <<budget, now, next, config, setup, pki, proc, cmd, served, ext, acct, archive, data>>

\* backupManagedCA
BackupCA ==
    /\ "restoreca" \in budget.ops
    /\ Loaded /\ config.mode = "managed" /\ CAUsable(cur)
    /\ archive' = archive \cup {cur.ca}
    /\ UNCHANGED <<budget, now, next, config, setup, pki, proc, cmd, served, ext, acct, data, clients,
                   mishaps>>

\* The process of a provider or a command is gone.
Kill(a) ==
    /\ Spend("kills")
    /\ proc[a] # Off \/ (a = "command" /\ cmd # Off)
    /\ proc' = [proc EXCEPT ![a] = Off]
    /\ served' = IF a = "server" THEN Nothing ELSE served
    /\ IF a = "command"
       THEN /\ cmd' = Off /\ moved' = Nothing
            /\ setup' = IF setup = "apply" THEN "off" ELSE setup
            /\ kept' = kept \cup (IF moved = Nothing THEN {} ELSE {moved.ca})
            /\ cur' \in {cur} \cup (IF cmd.at = "remove" /\ cur # Nothing THEN Remnants(cur) ELSE {})
            /\ mishaps' = mishaps \cup (IF cmd.at = "remove" THEN {"rollback"} ELSE {})
                                  \cup (IF moved # Nothing /\ Vacant THEN {"swap"} ELSE {})
       ELSE UNCHANGED <<cmd, setup, pki, mishaps>>
    /\ UNCHANGED <<now, next, config, ext, acct, archive, data, clients>>

-----------------------------------------------------------------------------

Hosts == {c.host : c \in budget.configs}

FilesNext ==
    \/ \E a \in Actors : ManagedStep(a) \/ ReloadExternal(a) \/ AcmeStep(a) \/ Kill(a)
    \/ \E h \in Hosts : ReplaceExternalCert(h)
    \/ ReplaceExternalKey
    \/ ServerStart \/ Watch \/ Tick \/ Write \/ ServerStop
    \/ CommandStep
    \/ RestoreStart \/ RestoreExtract \/ RestoreFails \/ RestoreCopy \/ RestoreInstall
    \/ BackupSnapshot \/ BackupPack
    \/ SetupOpen \/ SetupExchange \/ SetupInvite \/ SetupEnds
    \/ StatusStart \/ StatusEnds \/ HandOut \/ BackupCA

FilesSpec == FilesInit /\ [][FilesNext]_filesVars

-----------------------------------------------------------------------------
(* Properties *)

Without(bad) == bad \cap mishaps = {}

\* A root that clients were given is never the only copy that a command
\* destroys: whatever init, restore-ca, a fault, a rollback or a kill does, it
\* stays in pki/managed, in a directory left beside it or in the recovery
\* package.
CANotLost ==
    Without({"overlap", "roots"}) =>
        given \subseteq kept \cup archive \cup {d.ca : d \in {cur, moved} \ {Nothing}}

\* Once the command that replaces the directory has ended, the Server goes on
\* with the root clients were given last, with its key, unless a kill or a disk
\* that failed twice came at the wrong moment: a new host name, a rollback or
\* a forced renewal never changes the root.
CAContinuity ==
    Without({"overlap", "roots", "swap", "rollback"}) /\ cmd = Off /\ latest # Nothing =>
        CAUsable(cur) /\ cur.ca = latest

\* A Server serves a certificate only with its own key and for the host of its
\* configuration, whatever other renewals wrote into its two files meanwhile,
\* and one the current root has issued.
ServedChains ==
    served # Nothing =>
        /\ served.key = served.cert.n
        /\ served.cert.host = config.host
        /\ config.mode = "managed" /\ Without({"overlap", "roots", "swap", "rollback"}) =>
              served.cert.issuer = cur.ca

\* A restore that met no leftover log and no writer leaves exactly the content
\* of the package, and what it replaced is in a pre-restore copy, also when it
\* was killed between its steps and run again.
RestoreIsExact ==
    Without({"restore"}) => Visible = truth /\ replaced \subseteq pre

\* The registration in the ACME directory is that of the account key beside it,
\* also after a kill or a failure between the two files, so that issuance is
\* not refused for good.
AccountMatches ==
    Without({"acme"}) /\ acct.reg # Nothing => acct.reg = acct.key
=============================================================================
