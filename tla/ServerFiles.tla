----------------------------- MODULE ServerFiles -----------------------------
(***************************************************************************)
(* The data directories of the servers of one node and the three ways into *)
(* them: the files page (FilesService, one call of the daemon each), the   *)
(* mods and packs (ModsService, several calls of the daemon and rows of    *)
(* InstalledMod), and SFTP, whose sessions carry what the Backend answered *)
(* when they opened.  All of them go through filemgr.                      *)
(*                                                                         *)
(* A path is the sequence of its names below dataDir/servers; contents are *)
(* left out, and so is what the game itself writes.                        *)
(***************************************************************************)
EXTENDS Naturals, Sequences, SequencesExt

CONSTANTS
  Servers,      \* uuids, the names of the directories
  RelPaths,     \* paths a page or an SFTP client sends
  Releases,     \* [source, key, dir, file]: what can be installed, and where the page puts it
  Packs,        \* [strict, files, overrides]: strict is Modrinth, else CurseForge
  Calls,        \* requests of ModsService under way at the same time
  MaxRequests,  \* bound: requests ever made
  MaxFaults     \* bound: failed downloads, calls and writes, and crashes

ASSUME FilesAssumption ==
  /\ RelPaths \subseteq Seq(STRING)
  /\ \A r \in Releases : r.dir \in STRING /\ r.file \in STRING
  /\ \A p \in Packs : p.files \in Seq(Seq(STRING)) /\ p.overrides \in Seq(Seq(STRING))
  /\ MaxRequests \in Nat /\ MaxFaults \in Nat

VARIABLES
  files, dirs,  \* the paths that exist
  rows,         \* InstalledMod
  call,         \* per request of ModsService
  subUser,      \* ServerSubUser.permissions of one user who is neither owner nor
                \* administrator; {} also when there is no row
  session,      \* the SFTP session of that sub-user
  made, faults,
  loose,        \* history: paths whose file was refused, or removed by other means than
                \* the request that put it there
  reported,     \* history: packs an install of which was answered with success
  granted,      \* history: servers the sub-user was ever allowed to write
  bySub         \* history: servers the sub-user changed by SFTP

tree == <<files, dirs>>
history == <<loose, reported, granted, bySub>>
fileVars == <<files, dirs, rows, call, subUser, session, made, faults, loose, reported, granted, bySub>>

\* The index's files for a server, then the files under overrides/.
Wanted(p) == p.files \o p.overrides

Row == [server : Servers, key : {r.key : r \in Releases}, file : {r.file : r \in Releases},
        id : 1 .. MaxRequests]
Idle == [kind |-> "idle"]

FilesInit ==
  /\ files = {} /\ dirs = {<<s>> : s \in Servers}
  /\ rows = {}
  /\ call = [c \in Calls |-> Idle]
  /\ subUser = [s \in Servers |-> {}]
  /\ session = [server |-> "none"]
  /\ made = 0 /\ faults = 0
  /\ loose = {} /\ reported = {} /\ granted = {} /\ bySub = {}

Request == made < MaxRequests /\ made' = made + 1
Fault == faults < MaxFaults /\ faults' = faults + 1

-----------------------------------------------------------------------------
(* filemgr *)

\* filepath.Clean of a path that begins with "/", name by name: ".." takes the
\* last name back, and stays at the root.
Clean(rel) ==
  LET walk[n \in 0 .. Len(rel)] ==
        IF n = 0 THEN <<>>
        ELSE IF rel[n] = ".." THEN Front(walk[n - 1]) ELSE Append(walk[n - 1], rel[n])
  IN  walk[Len(rel)]

Resolve(s, rel) == <<s>> \o Clean(rel)

Parents(p) == {SubSeq(p, 1, n) : n \in 1 .. Len(p) - 1}
Under(p, q) == IsPrefix(p, q)
CanMkdir(p) == files \cap (Parents(p) \cup {p}) = {}
CanWrite(p) == Len(p) > 1 /\ p \notin dirs /\ files \cap Parents(p) = {}

\* Write: MkdirAll of the parent, WriteFile.
Write(p) ==
  IF CanWrite(p) THEN /\ files' = files \cup {p}
                      /\ dirs' = dirs \cup Parents(p)
                      /\ loose' = loose \ {p}
                 ELSE loose' = loose \cup {p} /\ UNCHANGED tree

Mkdir(p) == /\ dirs' = IF CanMkdir(p) THEN dirs \cup Parents(p) \cup {p} ELSE dirs
            /\ UNCHANGED <<files, loose>>

\* os.RemoveAll succeeds when there is nothing.
RemoveAll(p) == /\ files' = {q \in files : ~Under(p, q)}
                /\ dirs' = {q \in dirs : ~Under(p, q)}

\* os.Rename: the target's directory exists, a file does not replace a
\* directory, a directory replaces an empty one only, and not from above.
CanRename(from, to) ==
  /\ from \in files \cup dirs
  /\ files \cap Parents(to) = {}
  /\ from \in files => to \notin dirs
  /\ from \in dirs => to \notin files /\ (Under(from, to) => from = to)
                      /\ \A q \in files \cup dirs : Under(to, q) => q = to \/ from = to

Moved(from, to, q) == IF Under(from, q) THEN to \o SubSeq(q, Len(from) + 1, Len(q)) ELSE q

Rename(from, to, made_dirs) ==
  IF CanRename(from, to)
  THEN /\ files' = {Moved(from, to, q) : q \in files}
       /\ dirs' = {Moved(from, to, q) : q \in dirs} \cup made_dirs
       /\ loose' = loose \cup {q \in files : Under(from, q) \/ Under(to, q)}
  ELSE /\ dirs' = dirs \cup (IF files \cap made_dirs = {} THEN made_dirs ELSE {})
       /\ UNCHANGED <<files, loose>>

-----------------------------------------------------------------------------
(* The files page.  The daemon answers success = false when the operating
   system refuses; FilesService does not look, and the page reports success. *)

WriteFile(s, rel) == Write(Resolve(s, rel))
DeleteFile(s, rel) == RemoveAll(Resolve(s, rel)) /\ loose' = loose \cup (files \ files')
RenameFile(s, from, to) ==
  Rename(Resolve(s, from), Resolve(s, to), Parents(Resolve(s, to)))
CreateDirectory(s, rel) == Mkdir(Resolve(s, rel))

Page == Request /\ UNCHANGED <<rows, call, subUser, session, faults, reported, granted, bySub>>

SaveFile(s, rel) == Page /\ WriteFile(s, rel)
RemoveFile(s, rel) == Page /\ DeleteFile(s, rel)
MoveFile(s, from, to) == Page /\ RenameFile(s, from, to)
NewFolder(s, rel) == Page /\ CreateDirectory(s, rel)

-----------------------------------------------------------------------------
(* Mods *)

Begin(c, s, record) ==
  /\ call[c].kind = "idle" /\ Request
  /\ call' = [call EXCEPT ![c] = record]
  /\ UNCHANGED <<files, dirs, rows, subUser, session, faults, loose, reported, granted, bySub>>

Install(c, s, r) ==
  Begin(c, s, [kind |-> "install", step |-> "write", server |-> s, release |-> r, number |-> made + 1])

InstallFromModrinth(c, s) == \E r \in Releases : r.source = "MODRINTH" /\ Install(c, s, r)
InstallFromCurseforge(c, s) == \E r \in Releases : r.source = "CURSEFORGE" /\ Install(c, s, r)
InstallFromMarketplace(c, s) == \E r \in Releases : r.source = "MANUAL" /\ Install(c, s, r)

\* What the steps that touch files leave alone.
OnFiles == UNCHANGED <<rows, subUser, session, made, reported, granted, bySub>>
End(c) == call' = [call EXCEPT ![c] = Idle]
Goto(c, step) == call' = [call EXCEPT ![c].step = step]

Jar(c) == LET i == call[c] IN Resolve(i.server, <<i.release.dir, i.release.file>>)

\* downloadFile or the call of the daemon throws, and the request with it.
Fail(c) == Fault /\ End(c) /\ UNCHANGED <<files, dirs, loose>>

\* The daemon answers success = false, which nobody looks at.
RefusedWrite(p) == Fault /\ loose' = loose \cup {p} /\ UNCHANGED tree

\* Mutant: a failed download is caught, as it is in a CurseForge pack.
WriteJarCaught(c) ==
  /\ call[c].kind = "install" /\ call[c].step = "write"
  /\ \/ Write(Jar(c)) /\ Goto(c, "upsert") /\ UNCHANGED faults
     \/ Fault /\ Goto(c, "upsert") /\ UNCHANGED <<files, dirs, loose>>
  /\ OnFiles

WriteJar(c) ==
  /\ call[c].kind = "install" /\ call[c].step = "write"
  /\ \/ Write(Jar(c)) /\ Goto(c, "upsert") /\ UNCHANGED faults
     \/ RefusedWrite(Jar(c)) /\ Goto(c, "upsert")
     \/ Fail(c)
  /\ OnFiles

\* The row of (server, project) keeps its id; the old version's jar stays.
UpsertRow(c) ==
  LET i == call[c]
      old == {w \in rows : w.server = i.server /\ w.key = i.release.key}
      ids == IF old = {} THEN {i.number} ELSE {w.id : w \in old}
  IN  /\ i.kind = "install" /\ i.step = "upsert"
      /\ rows' = (rows \ old) \cup
           {[server |-> i.server, key |-> i.release.key, file |-> i.release.file, id |-> n] : n \in ids}
      /\ End(c)
      /\ UNCHANGED <<files, dirs, subUser, session, made, faults, history>>

\* The row is found by its id alone, whatever server it is of, and the directory
\* is what the client says: the panel says "mods" for every mod.
Uninstall(c, s) ==
  \E w \in rows, dir \in RelPaths :
    Begin(c, s, [kind |-> "uninstall", step |-> "deleteFile", server |-> s, dir |-> dir, row |-> w])

Removed(c) == Resolve(call[c].server, Append(call[c].dir, call[c].row.file))

\* The file may be the jar of another row, one an installation has just written,
\* one a pack brought: they are then without it.  A directory of that name goes
\* with all that is in it.
DeleteJar(c) ==
  LET u == call[c]
      jar == Removed(c)
      shared == \/ \E w \in rows, r \in Releases :
                     w.id # u.row.id /\ Resolve(w.server, <<r.dir, w.file>>) = jar
                \/ \E d \in Calls : call[d].kind = "install" /\ call[d].step = "upsert" /\ Jar(d) = jar
                \/ \E p \in Packs : \E n \in DOMAIN Wanted(p) : Resolve(u.server, Wanted(p)[n]) = jar
  IN  /\ u.kind = "uninstall" /\ u.step = "deleteFile"
      /\ \/ /\ RemoveAll(jar)
            /\ loose' = loose \cup (IF shared THEN {jar} ELSE {}) \cup {q \in files \ {jar} : Under(jar, q)}
            /\ Goto(c, "deleteRow") /\ UNCHANGED faults
         \/ Fault /\ Goto(c, "deleteRow") /\ UNCHANGED <<files, dirs, loose>>
         \/ Fail(c)
      /\ OnFiles

\* By id: throws, and changes nothing, when the row is gone.
DeleteRow(c) ==
  /\ call[c].kind = "uninstall" /\ call[c].step = "deleteRow"
  /\ rows' = {w \in rows : w.id # call[c].row.id}
  /\ End(c)
  /\ UNCHANGED <<files, dirs, subUser, session, made, faults, history>>

-----------------------------------------------------------------------------
(* Packs *)

InstallPack(c, s, p) ==
  Begin(c, s, [kind |-> "pack", server |-> s, pack |-> p, done |-> 0])

InstallModrinthModpack(c, s) == \E p \in Packs : p.strict /\ InstallPack(c, s, p)
InstallCurseforgeModpack(c, s) == \E p \in Packs : ~p.strict /\ InstallPack(c, s, p)

\* Mutant: every file of every pack is written in a try of its own.
StrictNever(i) == FALSE

\* Whether a failure of the next file ends the request: CurseForge's files are
\* each in a try of their own.
Strict(i) == i.pack.strict \/ i.done >= Len(i.pack.files)

WritePackFile(c) ==
  LET i == call[c]
      path == Resolve(i.server, Wanted(i.pack)[i.done + 1])
      next == call' = [call EXCEPT ![c].done = @ + 1]
  IN  /\ i.kind = "pack" /\ i.done < Len(Wanted(i.pack))
      /\ \/ Write(path) /\ next /\ UNCHANGED faults
         \/ RefusedWrite(path) /\ next
         \/ Strict(i) /\ Fail(c)
         \/ ~Strict(i) /\ Fault /\ next /\ UNCHANGED <<files, dirs, loose>>
      /\ OnFiles

ReportPack(c) ==
  LET i == call[c]
  IN  /\ i.kind = "pack" /\ i.done = Len(Wanted(i.pack))
      /\ reported' = reported \cup {[server |-> i.server, pack |-> i.pack]}
      /\ End(c)
      /\ UNCHANGED <<files, dirs, rows, subUser, session, made, faults, loose, granted, bySub>>

\* The Backend stops: its requests end where they are.  A row whose jar an
\* uninstall had deleted stays.
BackendCrash ==
  /\ Fault
  /\ \E c \in Calls : call[c].kind # "idle"
  /\ call' = [c \in Calls |-> Idle]
  /\ loose' = loose \cup {Removed(c) : c \in {d \in Calls : call[d].kind = "uninstall" /\ call[d].step = "deleteRow"}}
  /\ UNCHANGED <<files, dirs, rows, subUser, session, made, reported, granted, bySub>>

-----------------------------------------------------------------------------
(* Sub-users and SFTP.  Administrators and the owner are never read-only; what
   they change is what the files page can change. *)

FilePermissions == {"files.read", "files.write"}

AddSubUser(s, permissions) ==
  /\ Request
  /\ subUser' = [subUser EXCEPT ![s] = permissions]
  /\ granted' = IF "files.write" \in permissions THEN granted \cup {s} ELSE granted
  /\ UNCHANGED <<files, dirs, rows, call, session, faults, loose, reported, bySub>>

RemoveSubUser(s) ==
  /\ subUser[s] # {}
  /\ subUser' = [subUser EXCEPT ![s] = {}]
  /\ UNCHANGED <<files, dirs, rows, call, session, made, faults, history>>

\* The Backend's answer to the daemon.
Authenticate(s) ==
  [allowed |-> "files.read" \in subUser[s], readOnly |-> "files.write" \notin subUser[s]]

\* The answer is kept with the session until it closes.
OpenSession(s) ==
  /\ session.server = "none" /\ Authenticate(s).allowed /\ Request
  /\ session' = [server |-> s, readOnly |-> Authenticate(s).readOnly]
  /\ UNCHANGED <<files, dirs, rows, call, subUser, faults, history>>

CloseSession ==
  /\ session.server # "none" /\ session' = [server |-> "none"]
  /\ UNCHANGED <<files, dirs, rows, call, subUser, made, faults, history>>

Sftp ==
  /\ session.server # "none" /\ Request
  /\ bySub' = IF tree' # tree THEN bySub \cup {session.server} ELSE bySub
  /\ UNCHANGED <<rows, call, subUser, session, faults, reported, granted>>

\* OpenFile creates no directory.
Filewrite(rel) ==
  LET p == Resolve(session.server, rel)
  IN  /\ session.server # "none" /\ ~session.readOnly
      /\ CanWrite(p) /\ Parents(p) \subseteq dirs
      /\ Write(p)
      /\ Sftp

\* Mutant: only Filewrite looks at readOnly.
FilecmdAlways(rel, target) ==
  LET s == session.server
  IN  /\ s # "none"
      /\ \/ Rename(Resolve(s, rel), Resolve(s, target), {})
         \/ DeleteFile(s, rel)
         \/ CreateDirectory(s, rel)
      /\ Sftp

\* Rename, Rmdir and Remove, Mkdir.
Filecmd(rel, target) ==
  LET s == session.server
  IN  /\ s # "none" /\ ~session.readOnly
      /\ \/ Parents(Resolve(s, target)) \subseteq dirs /\ Rename(Resolve(s, rel), Resolve(s, target), {})
         \/ DeleteFile(s, rel)
         \/ CreateDirectory(s, rel)
      /\ Sftp

-----------------------------------------------------------------------------
ModStep(c) == WriteJar(c) \/ UpsertRow(c) \/ DeleteJar(c) \/ DeleteRow(c) \/ WritePackFile(c) \/ ReportPack(c)

\* What the pages offer.
ModrinthSearch(c, s) == InstallFromModrinth(c, s)
CurseforgeSearch(c, s) == InstallFromCurseforge(c, s)
MarketplacePage(c, s) == InstallFromMarketplace(c, s)
ModpackForms(c, s) == InstallModrinthModpack(c, s) \/ InstallCurseforgeModpack(c, s)
ModRequest(c, s) ==
  ModrinthSearch(c, s) \/ CurseforgeSearch(c, s) \/ MarketplacePage(c, s) \/ Uninstall(c, s) \/ ModpackForms(c, s)

FileManagerPanel(s, rel) ==
  SaveFile(s, rel) \/ RemoveFile(s, rel) \/ NewFolder(s, rel) \/ \E to \in RelPaths : MoveFile(s, rel, to)

SubUsersSettings(s) == RemoveSubUser(s) \/ \E p \in SUBSET FilePermissions : AddSubUser(s, p)

FilesNext ==
  \/ \E c \in Calls : ModStep(c) \/ \E s \in Servers : ModRequest(c, s)
  \/ \E s \in Servers, rel \in RelPaths : FileManagerPanel(s, rel)
  \/ \E s \in Servers : SubUsersSettings(s) \/ OpenSession(s)
  \/ \E rel \in RelPaths : Filewrite(rel) \/ \E target \in RelPaths : Filecmd(rel, target)
  \/ CloseSession
  \/ BackendCrash

FilesSpec == FilesInit /\ [][FilesNext]_fileVars

-----------------------------------------------------------------------------
(* Properties *)

\* The paths form a tree: every parent is a directory, no path is both a file
\* and a directory; a server has one row per project, and SFTP rights are known.
\* Write, Rename and the upserts of ModsService keep it.
FilesTypeOK ==
  /\ files \cap dirs = {}
  /\ \A p \in files \cup dirs : Head(p) \in Servers /\ Parents(p) \subseteq dirs
  /\ rows \subseteq Row
  /\ \A v, w \in rows : v.server = w.server /\ v.key = w.key => v = w
  /\ subUser \in [Servers -> SUBSET FilePermissions]

\* A row of InstalledMod stands for a jar: there is one, in the directory of a
\* release, unless the daemon refused to write it, it was removed by hand, or by
\* an uninstall of another row whose file has that path, of this server or not;
\* an uninstall of this row that has deleted the jar is about to delete the row.
RowsBacked ==
  \A w \in rows :
    \/ \E r \in Releases : Resolve(w.server, <<r.dir, w.file>>) \in files \cup loose
    \/ \E c \in Calls : call[c].kind = "uninstall" /\ call[c].step = "deleteRow" /\ call[c].row.id = w.id

\* Types, and a jar behind every row of the mods (ModsService).
FilesInv == FilesTypeOK /\ RowsBacked

\* A Modrinth pack that was answered with success is there whole, mods and
\* overrides, unless a file was refused or removed by other means since: a
\* failure in the middle leaves a part of it and an error.
PackComplete ==
  \A r \in reported : r.pack.strict =>
    \A n \in DOMAIN Wanted(r.pack) : Resolve(r.server, Wanted(r.pack)[n]) \in files \cup loose

\* A sub-user who never had files.write on a server changes none of its files by
\* SFTP, whatever is granted and revoked between the opening of a session and
\* its use (SftpAuthService.authenticate, fsHandlers).
ReadOnlyKept == bySub \subseteq granted

=============================================================================
