--------------------------- MODULE ManagerLookup ---------------------------
(***************************************************************************)
(* How magiskd finds the manager app of a user: ManagerInfo::get_manager   *)
(* (core/package.rs) in a release build.  The manager is the package the   *)
(* database names, a stub that loads a "dyn" APK signed with the trusted   *)
(* certificate, or the app under its original name.  What a look-up finds  *)
(* is remembered: one repackaged package for all users, and for each user  *)
(* a file whose ctime tells whether to look again.                         *)
(*                                                                         *)
(* Look-ups hold manager_info's mutex, so there is one at a time, but the  *)
(* files, the packages and the database change between its steps.  Of a    *)
(* tracked file the model keeps whether its ctime still is the recorded    *)
(* one; an app id is named by its package.                                 *)
(***************************************************************************)
EXTENDS Naturals

CONSTANTS
    Users,
    Pkgs,       \* names a repackaged manager can have
    Certs,      \* certificates apps are signed with, other than the trusted one
    MaxChanges  \* bound on changes to packages, files and the database

ASSUME ManagerAssumption ==
    /\ {"trusted", "unsigned", "none"} \cap Certs = {}
    /\ {"orig", "none"} \cap Pkgs = {}
    /\ MaxChanges \in Nat

VARIABLES
    apk,        \* certificate of each package's installed APK, or "none"
    dyn,        \* certificate of dyn/current.apk, by user and package, or "none"
    data,       \* users with a data directory of the original package
    db,         \* SuManager entry of the database, or "none"
    repackaged, \* ManagerInfo: the package, its certificate, and whose app id is stored
    tracked,    \* ManagerInfo: tracked_files
    same,       \* users whose tracked file is unchanged
    look,       \* the look-up that holds the mutex
    answer,     \* what the last look-up returned
    commands,   \* `pm install`, `pm uninstall` of the original package, started
    changes     \* bound

files == <<apk, dyn, data, db>>
trackedVars == <<tracked, same>>
vars == <<files, repackaged, trackedVars, look, answer, commands, changes>>

Orig == "orig"
Names == Pkgs \cup {"none"}
AllPkgs == Pkgs \cup {Orig}
Trusted == "trusted"
NoFile == [kind |-> "none", pkg |-> "none"]
NoLook == [pc |-> "idle", user |-> "none", db_pkg |-> "none", want |-> {}, cert |-> "none"]
NoManager == [app |-> "none", pkg |-> "none"]

Steps == {"idle", "tracked", "stub", "trackStub", "dyn", "trackDyn", "orig", "trackOrig"}

Init ==
    /\ apk = [p \in AllPkgs |-> IF p = Orig THEN Trusted ELSE "none"]
    /\ dyn = [u \in Users |-> [p \in Pkgs |-> "none"]]
    /\ data = Users
    /\ db = "none"
    /\ repackaged = [pkg |-> "none", cert |-> "none", app |-> "none"]
    /\ tracked = [u \in Users |-> NoFile] /\ same = {}
    /\ look = NoLook /\ answer = NoManager
    /\ commands = {} /\ changes = 0

-----------------------------------------------------------------------------
(* get_manager                                                             *)

At(pc) == look.pc = pc
Goto(pc) == look' = [look EXCEPT !.pc = pc]
Return(a) == answer' = a /\ look' = NoLook

\* TrackedFile::new, by which nothing is tracked if the file has gone meanwhile.
Track(kind, pkg, exists) ==
    /\ tracked' = [tracked EXCEPT ![look.user] = IF exists THEN [kind |-> kind, pkg |-> pkg]
                                                ELSE NoFile]
    /\ same' = IF exists THEN same \cup {look.user} ELSE same \ {look.user}

\* The packages.xml branch and the end of get_manager, with install_stub.
NothingFound(want) ==
    /\ commands' = commands \cup want
    /\ Return(NoManager)

\* Mutant: a changed entry of the database is not noticed.
ChangeUnnoticed(pkg) == FALSE

\* "If database changed, always re-check files"
DatabaseChanged(pkg) == pkg # repackaged.pkg

\* get_db_string, which is empty when the query fails, and the entry of
\* tracked_files.
Begin(user, want) ==
    /\ At("idle")
    /\ \E db_pkg \in {db, "none"} :
          /\ look' = [pc |-> "tracked", user |-> user, db_pkg |-> db_pkg, want |-> want,
                      cert |-> "none"]
          /\ IF DatabaseChanged(db_pkg)
             THEN tracked' = [tracked EXCEPT ![user] = NoFile] /\ same' = same \ {user}
             ELSE UNCHANGED trackedVars
    /\ UNCHANGED <<files, repackaged, answer, commands, changes>>

\* get_package_uid
OrigManager(user) == IF user \in data THEN [app |-> Orig, pkg |-> Orig] ELSE NoManager

\* The user's tracked file is still the same.
UseTracked ==
    /\ At("tracked") /\ look.user \in same
    /\ LET kind == tracked[look.user].kind
       IN  \/ kind = "xml" /\ NothingFound(look.want)
           \/ /\ kind = "dyn"
              /\ Return([app |-> repackaged.app, pkg |-> repackaged.pkg])
              /\ UNCHANGED commands
           \/ kind \in {"stub", "orig"} /\ repackaged.pkg # "none"
              /\ Goto("dyn") /\ UNCHANGED <<answer, commands>>
           \/ kind \in {"stub", "orig"} /\ repackaged.pkg = "none"
              /\ Return(OrigManager(look.user)) /\ UNCHANGED commands
    /\ UNCHANGED <<files, repackaged, trackedVars, changes>>

Forget == repackaged' = [repackaged EXCEPT !.pkg = "none", !.cert = "none"]

LookAgain ==
    /\ At("tracked") /\ look.user \notin same
    /\ \/ look.db_pkg # "none" /\ Goto("stub") /\ UNCHANGED repackaged
       \/ look.db_pkg = "none" /\ Goto("orig") /\ Forget
    /\ UNCHANGED <<files, trackedVars, answer, commands, changes>>

\* Mutant: the certificate is not compared with the one seen before.
RefusesUnsigned(pkg, cert) == cert = "unsigned"

\* A stub must be signed, and signed as before.
RefusesStub(pkg, cert) ==
    cert = "unsigned" \/ (pkg = repackaged.pkg /\ cert # repackaged.cert)

\* check_stub, up to the certificate.
CheckStub ==
    /\ At("stub")
    /\ LET cert == apk[look.db_pkg]
       IN  /\ cert # "none" /\ ~RefusesStub(look.db_pkg, cert)
           /\ look' = [look EXCEPT !.pc = "trackStub", !.cert = cert]
    /\ UNCHANGED <<files, repackaged, trackedVars, answer, commands, changes>>

\* check_stub and its caller, without a stub or with a bad one: rm_db_string,
\* which may fail.  uninstall_pkg is given the path of the APK: no effect.
NoStub ==
    /\ At("stub")
    /\ LET cert == apk[look.db_pkg]
       IN  /\ cert = "none" \/ RefusesStub(look.db_pkg, cert)
           /\ look' = [look EXCEPT !.pc = "orig",
                                 !.want = IF cert = "none" THEN @ ELSE {"install"}]
    /\ Forget
    /\ db' \in {"none", db}
    /\ UNCHANGED <<apk, dyn, data, trackedVars, answer, commands, changes>>

\* The end of check_stub: the path is looked at again for its ctime.
TrackStub ==
    /\ At("trackStub")
    /\ repackaged' = [repackaged EXCEPT !.pkg = look.db_pkg, !.cert = look.cert]
    /\ Track("stub", look.db_pkg, apk[look.db_pkg] # "none")
    /\ Goto("dyn")
    /\ UNCHANGED <<files, answer, commands, changes>>

\* check_dyn on the package the caller passes: db_pkg is repackaged_pkg here.
CheckDyn ==
    /\ At("dyn")
    /\ IF dyn[look.user][repackaged.pkg] = Trusted
       THEN Goto("trackDyn") /\ UNCHANGED answer
       ELSE Return(NoManager)
    /\ UNCHANGED <<files, repackaged, trackedVars, commands, changes>>

TrackDyn ==
    /\ At("trackDyn")
    /\ repackaged' = [repackaged EXCEPT !.app = repackaged.pkg]
    /\ Track("dyn", repackaged.pkg, dyn[look.user][repackaged.pkg] # "none")
    /\ Return([app |-> repackaged.pkg, pkg |-> repackaged.pkg])
    /\ UNCHANGED <<files, commands, changes>>

\* check_orig, up to the certificate.
CheckOrig ==
    /\ At("orig") /\ apk[Orig] = Trusted
    /\ Goto("trackOrig")
    /\ UNCHANGED <<files, repackaged, trackedVars, answer, commands, changes>>

TrackOrig ==
    /\ At("trackOrig")
    /\ Track("orig", Orig, apk[Orig] # "none")
    /\ Return(OrigManager(look.user))
    /\ UNCHANGED <<files, repackaged, commands, changes>>

\* No original app, or one with another certificate, which is uninstalled.
NoOrig ==
    /\ At("orig") /\ apk[Orig] # Trusted
    /\ Track("xml", "none", TRUE)
    /\ NothingFound(IF apk[Orig] = "none" THEN look.want ELSE {"uninstall", "install"})
    /\ UNCHANGED <<files, repackaged, changes>>

-----------------------------------------------------------------------------
(* The package manager, the apps and the user (external)                   *)

Touched(users) == same' = same \ users /\ UNCHANGED tracked
Tracking(kinds, p) == {u \in Users : tracked[u].kind \in kinds /\ tracked[u].pkg = p}

\* Packages.xml changes with every package, and so does the APK's path.
Stale(p) == Touched(Tracking({"xml"}, "none") \cup Tracking({"stub", "orig"}, p))

Change == changes < MaxChanges /\ changes' = changes + 1 /\ UNCHANGED <<repackaged, look, answer>>

InstallPkg(p) ==
    /\ apk[p] = "none"
    /\ \E cert \in Certs \cup {Trusted, "unsigned"} : apk' = [apk EXCEPT ![p] = cert]
    /\ data' = IF p = Orig THEN Users ELSE data
    /\ Stale(p) /\ Change
    /\ UNCHANGED <<dyn, db, commands>>

\* With the data of all users.
UninstallPkg(p) ==
    /\ apk[p] # "none"
    /\ apk' = [apk EXCEPT ![p] = "none"]
    /\ dyn' = [u \in Users |-> [q \in Pkgs |-> IF q = p THEN "none" ELSE dyn[u][q]]]
    /\ data' = IF p = Orig THEN {} ELSE data
    /\ Touched(Tracking({"xml"}, "none") \cup Tracking({"stub", "orig", "dyn"}, p)) /\ Change
    /\ UNCHANGED <<db, commands>>

\* The stub, or whatever has its data, puts a dyn APK in place.
WriteDyn(u, p) ==
    /\ apk[p] # "none"
    /\ \E cert \in Certs \cup {Trusted} : dyn' = [dyn EXCEPT ![u][p] = cert]
    /\ Touched(Tracking({"dyn"}, p) \cap {u}) /\ Change
    /\ UNCHANGED <<apk, data, db, commands>>

\* The commands the daemon has started.
PmInstall ==
    /\ "install" \in commands /\ commands' = commands \ {"install"}
    /\ \/ /\ apk[Orig] \in {"none", Trusted}
          /\ apk' = [apk EXCEPT ![Orig] = Trusted] /\ data' = Users
          /\ Stale(Orig)
       \/ apk[Orig] \notin {"none", Trusted} /\ UNCHANGED <<apk, data, trackedVars>>
    /\ UNCHANGED <<dyn, db, repackaged, look, answer, changes>>

PmUninstall ==
    /\ "uninstall" \in commands /\ commands' = commands \ {"uninstall"}
    /\ apk' = [apk EXCEPT ![Orig] = "none"] /\ data' = {}
    /\ Stale(Orig)
    /\ UNCHANGED <<dyn, db, repackaged, look, answer, changes>>

-----------------------------------------------------------------------------
(* AppMigration: the app hides itself under another name, or goes back.    *)
SetSuManager(p) ==
    /\ p # db /\ db' = p
    /\ Change
    /\ UNCHANGED <<apk, dyn, data, trackedVars, commands>>

Next ==
    \/ \E u \in Users, want \in {{}, {"install"}} : Begin(u, want)
    \/ UseTracked \/ LookAgain
    \/ CheckStub \/ NoStub \/ TrackStub \/ CheckDyn \/ TrackDyn
    \/ CheckOrig \/ TrackOrig \/ NoOrig
    \/ \E p \in AllPkgs : InstallPkg(p) \/ UninstallPkg(p)
    \/ \E u \in Users, p \in Pkgs : WriteDyn(u, p)
    \/ PmInstall \/ PmUninstall
    \/ \E p \in Pkgs \cup {"none"} : SetSuManager(p)

Spec == Init /\ [][Next]_vars

-----------------------------------------------------------------------------
(* Properties                                                              *)

\* Type correctness of the packages, the remembered manager and the look-up.
TypeOK ==
    /\ apk \in [AllPkgs -> Certs \cup {Trusted, "unsigned", "none"}]
    /\ dyn \in [Users -> [Pkgs -> Certs \cup {Trusted, "none"}]]
    /\ data \subseteq Users
    /\ db \in Names
    /\ repackaged \in [pkg : Names, cert : Certs \cup {Trusted, "none"}, app : Names]
    /\ repackaged.pkg = "none" <=> repackaged.cert = "none"
    /\ tracked \in [Users -> [kind : {"none", "xml", "stub", "orig", "dyn"},
                             pkg : AllPkgs \cup {"none"}]]
    /\ same \subseteq Users
    /\ look \in [pc : Steps, user : Users \cup {"none"}, db_pkg : Names, want : {{}, {"install"}},
                 cert : Certs \cup {Trusted, "none"}]
    /\ answer \in [app : AllPkgs \cup {"none"}, pkg : AllPkgs \cup {"none"}]
    /\ commands \subseteq {"install", "uninstall"} /\ changes \in 0..MaxChanges

Returns == look.pc # "idle" /\ look'.pc = "idle"

\* However the look-ups of several users and changes of packages interleave,
\* a repackaged manager is reported only if the database named it when the
\* look-up began, and the original app only if it named none or one found
\* unusable (get_manager).
AnswerFollowsDatabase ==
    [][Returns => /\ answer'.pkg \in Pkgs => answer'.pkg = look.db_pkg
                  /\ answer'.pkg = Orig => look.db_pkg = "none" \/ At("trackOrig")]_vars

\* The package remembered never changes its certificate: another app that took
\* over the name of the repackaged manager is not believed (check_stub).
CertificatePinned ==
    [][repackaged.pkg # "none" /\ repackaged'.pkg = repackaged.pkg
         => repackaged'.cert = repackaged.cert]_vars

\* What get_manager says: "If database changed, always re-check files", so the
\* uid it returns is the one of the package it returns.
UidOfPackage == [][Returns => answer'.app = answer'.pkg]_vars
=============================================================================
