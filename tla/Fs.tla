--------------------------------- MODULE Fs ---------------------------------
(***************************************************************************)
(* Inodes, directories and path names (fs.c), the calls on names in        *)
(* sysfile.c, and the file table (file.c), by processes that run at once.  *)
(*                                                                         *)
(* A step goes from one place where a process may wait (acquiresleep of an *)
(* inode) or be overtaken (icache.lock let go) to the next.  A directory   *)
(* is the set of its <<name, inum>> entries; what files hold is left to    *)
(* FileData.  The disk is the one that the log shows: Log implements       *)
(* AtomicDisk, so a crash takes it back to a moment with no call under way.*)
(***************************************************************************)
EXTENDS Integers, FiniteSets, Sequences, FiniteSetsExt

CONSTANTS
  Procs, NoProc,
  Requests,       \* what programs ask for: call, type, path and (for link) new;
                  \* a path is [abs |-> begins with a slash, elems |-> its elements]
  Disks,          \* the dinodes to start from
  NINODES,        \* inodes on disk
  NINODE,         \* entries of icache
  NFILE, NOFILE,
  MaxCalls,       \* a bound on the calls made
  MayCrash        \* whether the machine may stop and start again

ASSUME FsAssumption ==
  /\ IsFiniteSet(Procs) /\ NoProc \notin Procs
  /\ \A x \in Requests : x.path.abs \in BOOLEAN /\ Len(x.path.elems) \in Nat
  /\ {NINODES, NINODE, NFILE, NOFILE, MaxCalls} \subseteq Nat \ {0}
  /\ MayCrash \in BOOLEAN

ROOTINO == 1
Inums == 1 .. NINODES
Slots == 1 .. NINODE
Files == 1 .. NFILE
Fds == 1 .. NOFILE

VARIABLES
  dinode,      \* on disk: type, nlink, ents
  icache,      \* inum, ref, valid, type, nlink and the holder of the sleep lock
  file,        \* ftable: ref and ip
  ofile, cwd,  \* per process; cwd is 0 for a slot of ptable that is not in use
  reg,         \* per process: position and locals of the call
  panic,       \* the message of a panic, or ""
  strayed,     \* history: a directory was used for a name after its removal
  calls        \* calls begun

vars == <<dinode, icache, file, ofile, cwd, reg, panic, strayed, calls>>

\* Locals: cur is namex's ip, then its return; put is iput's ip, back its return.
Idle == [pc |-> "user", call |-> "", type |-> "", path |-> <<>>, par |-> FALSE,
         name |-> "", new |-> <<>>, cur |-> 0, dp |-> 0, ip |-> 0,
         then |-> "", put |-> 0, back |-> ""]

NoInode == [inum |-> 0, ref |-> 0, valid |-> FALSE, type |-> "free", nlink |-> 0,
            lock |-> NoProc]
FreeInode == [type |-> "free", nlink |-> 0, ents |-> {}]

\* What memory holds once the processes run in the root directory.
Booted(c, f, o, w) ==
  /\ c = [s \in Slots |-> IF s = 1 THEN [NoInode EXCEPT !.inum = ROOTINO, !.ref = Cardinality(Procs)]
                                   ELSE NoInode]
  /\ f = [g \in Files |-> [ref |-> 0, ip |-> 0]]
  /\ o = [p \in Procs |-> [d \in Fds |-> 0]]
  /\ w = [p \in Procs |-> 1]

Init ==
  /\ dinode \in Disks
  /\ Booted(icache, file, ofile, cwd)
  /\ reg = [p \in Procs |-> Idle]
  /\ panic = "" /\ strayed = FALSE /\ calls = 0

-----------------------------------------------------------------------------
(* The inode cache, as functions of its state c *)

Cached(c, i) == {s \in Slots : c[s].ref > 0 /\ c[s].inum = i}
Unused(c) == {s \in Slots : c[s].ref = 0}

\* iget has an entry for i, or one to recycle; otherwise it panics.
CanGet(c, i) == Cached(c, i) \cup Unused(c) # {}
SlotOf(c, i) == IF Cached(c, i) # {} THEN Min(Cached(c, i)) ELSE Min(Unused(c))

iget(c, i) ==
  LET s == SlotOf(c, i) IN
  IF Cached(c, i) # {} THEN [c EXCEPT ![s].ref = @ + 1]
  ELSE [c EXCEPT ![s].inum = i, ![s].ref = 1, ![s].valid = FALSE]

idup(c, s) == [c EXCEPT ![s].ref = @ + 1]

\* What ilock(ip) sees once it has the lock.
Loaded(c, s) ==
  LET d == dinode[c[s].inum] IN
  IF c[s].valid THEN c
  ELSE [c EXCEPT ![s].valid = TRUE, ![s].type = d.type, ![s].nlink = d.nlink]

\* The lock is free; the inode that is read has a type, or ilock panics.
Unlocked(s) == icache[s].lock = NoProc
Typed(s) == icache[s].valid \/ dinode[icache[s].inum].type # "free"
CanLock(s) == s # 0 /\ Unlocked(s) /\ Typed(s)

iupdate(d, c, s) == [d EXCEPT ![c[s].inum].type = c[s].type, ![c[s].inum].nlink = c[s].nlink]

\* The inodes that the directory in s names n.
dirlookup(s, n) == {e[2] : e \in {x \in dinode[icache[s].inum].ents : x[1] = n}}

\* isdirempty: but for "." and "..".
isdirempty(s) == \A e \in dinode[icache[s].inum].ents : e[1] \in {".", ".."}

-----------------------------------------------------------------------------
(* Moves of a process *)

Set(p, r) == reg' = [reg EXCEPT ![p] = r]
At(p, l) == panic = "" /\ reg[p].pc = l
Goto(p, l) == Set(p, [reg[p] EXCEPT !.pc = l])
Return(p) == Set(p, Idle)

\* iput(s), with r the other locals, and on to l.
PutWith(p, r, s, l) == Set(p, [r EXCEPT !.pc = "put", !.put = s, !.back = l])

OnlyInodes == UNCHANGED <<file, ofile, cwd, panic, calls>>
OnlyCache == UNCHANGED <<dinode, strayed>> /\ OnlyInodes

\* A call from user mode, that has changed no file and no inode on disk so far.
Begin(p) ==
  /\ At(p, "user") /\ cwd[p] # 0
  /\ calls < MaxCalls /\ calls' = calls + 1
  /\ UNCHANGED <<dinode, strayed, panic>>

Panic(m) == panic' = m /\ UNCHANGED <<dinode, icache, file, ofile, cwd, reg, strayed, calls>>

\* The inode that p is about to lock, by ilock or by iput's acquiresleep.
AtIlock(p) ==
  LET r == reg[p] IN
  CASE r.pc = "namex" -> IF r.path = <<>> THEN 0 ELSE r.cur
    [] r.pc \in {"link", "linkdir", "unlink", "create", "open", "exec", "chdir"} -> r.cur
    [] r.pc \in {"linkbad", "unlinkip", "exists", "made"} -> r.ip
    [] OTHER -> 0
Wants(p) == IF reg[p].pc = "put" THEN reg[p].put ELSE AtIlock(p)

IlockPanic(p) ==
  /\ panic = "" /\ AtIlock(p) # 0 /\ Unlocked(AtIlock(p)) /\ ~Typed(AtIlock(p))
  /\ Panic("ilock: no type")

\* namex(path) with the cache c, in a call whose locals are r.
StartNamex(p, c, r, path, par, l) ==
  /\ ~path.abs \/ CanGet(c, ROOTINO)
  /\ icache' = IF path.abs THEN iget(c, ROOTINO) ELSE idup(c, cwd[p])
  /\ Set(p, [r EXCEPT !.pc = "namex", !.path = path.elems, !.par = par, !.then = l,
                      !.cur = IF path.abs THEN SlotOf(c, ROOTINO) ELSE cwd[p]])

\* The slot and the cache for an entry found by dirlookup, as in iget(dp->dev, inum).
IgetPanic(p) ==
  LET r == reg[p] IN
  /\ panic = "" /\ CanLock(AtIlock(p))
  /\ \E i \in Inums :
       /\ ~CanGet(Loaded(icache, AtIlock(p)), i)
       /\ \/ r.pc = "namex" /\ ~(r.par /\ Tail(r.path) = <<>>) /\ i \in dirlookup(r.cur, Head(r.path))
          \/ r.pc \in {"linkdir", "unlink", "create"} /\ i \in dirlookup(r.cur, r.name)
          \/ r.pc = "link" /\ r.new.abs /\ i = ROOTINO
  /\ Panic("iget: no inodes")

\* One turn of namex's loop, or its end: ilock, the checks, dirlookup, iunlock.
namex(p) ==
  LET r == reg[p]
      s == r.cur
      c == Loaded(icache, s)
      last == r.par /\ Tail(r.path) = <<>>
      fail == [r EXCEPT !.cur = 0, !.path = <<>>] IN
  /\ At(p, "namex")
  /\ \/ /\ r.path = <<>> /\ UNCHANGED icache
        /\ IF r.par THEN PutWith(p, fail, s, r.then) ELSE Goto(p, r.then)
        /\ OnlyCache
     \/ /\ r.path # <<>> /\ CanLock(s)
        /\ \/ c[s].type # "dir"
           \/ c[s].type = "dir" /\ ~last /\ dirlookup(s, Head(r.path)) = {}
        /\ icache' = c /\ PutWith(p, fail, s, r.then)
        /\ OnlyCache
     \/ /\ r.path # <<>> /\ CanLock(s) /\ c[s].type = "dir" /\ last
        /\ icache' = c
        /\ Set(p, [r EXCEPT !.pc = r.then, !.path = <<>>, !.name = Head(r.path)])
        /\ OnlyCache
     \/ /\ r.path # <<>> /\ CanLock(s) /\ c[s].type = "dir" /\ ~last
        /\ \E i \in dirlookup(s, Head(r.path)) :
             /\ CanGet(c, i)
             /\ icache' = iget(c, i)
             /\ PutWith(p, [r EXCEPT !.cur = SlotOf(c, i), !.path = Tail(@)], s, "namex")
        /\ strayed' = (strayed \/ (c[s].nlink = 0 /\ Head(r.path) = ".."))
        /\ UNCHANGED dinode /\ OnlyInodes

-----------------------------------------------------------------------------
(* iput *)

\* Mistaken iput: the other references are not looked at.
PutCheckNoRef(p) ==
  LET r == reg[p]
      n == icache[r.put] IN
  /\ At(p, "put") /\ n.lock = NoProc
  /\ IF n.valid /\ n.nlink = 0
     THEN icache' = [icache EXCEPT ![r.put].lock = p] /\ Goto(p, "putfree")
     ELSE Goto(p, "putref") /\ UNCHANGED icache
  /\ OnlyCache

\* acquiresleep, and is this the last use of an inode without links?
PutCheck(p) ==
  LET r == reg[p]
      n == icache[r.put] IN
  /\ At(p, "put") /\ n.lock = NoProc
  /\ IF n.valid /\ n.nlink = 0 /\ n.ref = 1
     THEN icache' = [icache EXCEPT ![r.put].lock = p] /\ Goto(p, "putfree")
     ELSE Goto(p, "putref") /\ UNCHANGED icache
  /\ OnlyCache

\* itrunc, type 0 and iupdate: from here on ialloc may take the inode.
PutFree(p) ==
  LET s == reg[p].put IN
  /\ At(p, "putfree")
  /\ icache' = [icache EXCEPT ![s].type = "free"]
  /\ dinode' = [dinode EXCEPT ![icache[s].inum] = FreeInode]
  /\ Goto(p, "putvalid")
  /\ UNCHANGED strayed /\ OnlyInodes

\* Mistaken iput: the entry stays valid after its inode is freed.
PutKeepsValid(p) ==
  /\ At(p, "putvalid")
  /\ icache' = [icache EXCEPT ![reg[p].put].lock = NoProc]
  /\ Goto(p, "putref")
  /\ OnlyCache

PutValid(p) ==
  /\ At(p, "putvalid")
  /\ icache' = [icache EXCEPT ![reg[p].put].valid = FALSE, ![reg[p].put].lock = NoProc]
  /\ Goto(p, "putref")
  /\ OnlyCache

\* An entry without references is only a place for iget and ilock to fill.
PutRef(p) ==
  LET r == reg[p] IN
  /\ At(p, "putref")
  /\ icache' = [icache EXCEPT ![r.put] = IF @.ref = 1 THEN NoInode ELSE [@ EXCEPT !.ref = @ - 1]]
  /\ Set(p, IF r.back = "end" THEN Idle ELSE [r EXCEPT !.pc = r.back, !.put = 0, !.back = ""])
  /\ OnlyCache

iput(p) == PutCheck(p) \/ PutFree(p) \/ PutValid(p) \/ PutRef(p)

\* namex has returned 0 to position l: the call fails.
Unnamed(p, l) ==
  /\ At(p, l) /\ reg[p].cur = 0
  /\ Return(p) /\ UNCHANGED icache /\ OnlyCache

\* iunlockput(s), where s is not locked by an earlier step, and the end of the call.
PutEnd(p, c, s) == icache' = c /\ PutWith(p, [reg[p] EXCEPT !.cur = 0], s, "end")

-----------------------------------------------------------------------------
(* sys_link *)

sys_link(p, old, new) ==
  /\ Begin(p) /\ UNCHANGED <<file, ofile, cwd>>
  /\ StartNamex(p, icache, [Idle EXCEPT !.call = "link", !.new = new], old, FALSE, "link")

\* old is found: count the new link first, then look for its directory.
LinkCount(p) ==
  LET r == reg[p]
      c == Loaded(icache, r.cur)
      n == [c EXCEPT ![r.cur].nlink = @ + 1] IN
  /\ At(p, "link") /\ CanLock(r.cur)
  /\ IF c[r.cur].type = "dir" THEN PutEnd(p, c, r.cur) /\ UNCHANGED dinode
     ELSE /\ dinode' = iupdate(dinode, n, r.cur)
          /\ StartNamex(p, n, [r EXCEPT !.ip = r.cur, !.new = <<>>], r.new, TRUE, "linkdir")
  /\ UNCHANGED strayed /\ OnlyInodes

\* The entry that dirlink(dp, name, inum) writes in the directory in slot s.
NewEntry(s, n, i) ==
  /\ dinode' = [dinode EXCEPT ![icache[s].inum].ents = @ \cup {<<n, i>>}]
  /\ strayed' = (strayed \/ Loaded(icache, s)[s].nlink = 0)

\* ilock(dp) and dirlink(dp, name, ip->inum).  A name that is there already is
\* looked up and put again with dp locked.
LinkDir(p) ==
  LET r == reg[p]
      c == Loaded(icache, r.cur) IN
  /\ At(p, "linkdir") /\ CanLock(r.cur)
  /\ \/ /\ dirlookup(r.cur, r.name) = {}
        /\ icache' = c
        /\ NewEntry(r.cur, r.name, icache[r.ip].inum)
        /\ PutWith(p, [r EXCEPT !.cur = 0, !.name = ""], r.cur, "linkput")
     \/ \E i \in dirlookup(r.cur, r.name) :
          /\ CanGet(c, i)
          /\ icache' = [iget(c, i) EXCEPT ![r.cur].lock = p]
          /\ PutWith(p, [r EXCEPT !.cur = 0, !.dp = r.cur, !.name = ""], SlotOf(c, i), "linkdup")
          /\ UNCHANGED <<dinode, strayed>>
  /\ OnlyInodes

\* The name was taken, and dp is let go; or there was no directory.
LinkFail(p) ==
  LET r == reg[p] IN
  /\ \/ /\ At(p, "linkdup")
        /\ icache' = [icache EXCEPT ![r.dp].lock = NoProc]
        /\ PutWith(p, [r EXCEPT !.dp = 0], r.dp, "linkbad")
     \/ At(p, "linkdir") /\ r.cur = 0 /\ Goto(p, "linkbad") /\ UNCHANGED icache
  /\ OnlyCache

\* Mistaken bad: the link counted for old is not taken back.
LinkBadKeeps(p) ==
  /\ At(p, "linkbad") /\ CanLock(reg[p].ip)
  /\ PutWith(p, [reg[p] EXCEPT !.ip = 0], reg[p].ip, "end")
  /\ UNCHANGED icache /\ OnlyCache

\* bad: take the link back.
LinkBad(p) ==
  LET r == reg[p]
      c == [icache EXCEPT ![r.ip].nlink = @ - 1] IN
  /\ At(p, "linkbad") /\ CanLock(r.ip)
  /\ icache' = c
  /\ dinode' = iupdate(dinode, c, r.ip)
  /\ PutWith(p, [r EXCEPT !.ip = 0], r.ip, "end")
  /\ UNCHANGED strayed /\ OnlyInodes

LinkPut(p) ==
  /\ At(p, "linkput")
  /\ PutWith(p, [reg[p] EXCEPT !.ip = 0], reg[p].ip, "end")
  /\ UNCHANGED icache /\ OnlyCache

Link(p) ==
  \/ Unnamed(p, "link") \/ LinkCount(p) \/ LinkDir(p) \/ LinkFail(p) \/ LinkBad(p) \/ LinkPut(p)

-----------------------------------------------------------------------------
(* sys_unlink *)

sys_unlink(p, path) ==
  /\ Begin(p) /\ UNCHANGED <<file, ofile, cwd>>
  /\ StartNamex(p, icache, [Idle EXCEPT !.call = "unlink"], path, TRUE, "unlink")

\* dp is locked and stays so until the entry is gone.
UnlinkFind(p) ==
  LET r == reg[p]
      c == Loaded(icache, r.cur) IN
  /\ At(p, "unlink") /\ CanLock(r.cur)
  /\ \/ /\ r.name \in {".", ".."} \/ dirlookup(r.cur, r.name) = {}
        /\ PutEnd(p, c, r.cur)
     \/ /\ r.name \notin {".", ".."}
        /\ \E i \in dirlookup(r.cur, r.name) :
             /\ CanGet(c, i)
             /\ icache' = [iget(c, i) EXCEPT ![r.cur].lock = p]
             /\ Set(p, [r EXCEPT !.pc = "unlinkip", !.dp = r.cur, !.cur = 0, !.ip = SlotOf(c, i)])
  /\ OnlyCache

\* ip is locked below dp; the entry goes, and dp is put with ip still locked.
UnlinkEntry(p) ==
  LET r == reg[p]
      c == Loaded(icache, r.ip)
      e == <<r.name, c[r.ip].inum>>
      down == IF c[r.ip].type = "dir" THEN 1 ELSE 0
      n == [c EXCEPT ![r.ip].lock = p, ![r.dp].lock = NoProc, ![r.dp].nlink = @ - down] IN
  /\ At(p, "unlinkip") /\ CanLock(r.ip)
  /\ c[r.ip].nlink < 1 \/ c[r.ip].type # "dir" \/ isdirempty(r.ip)
  /\ IF c[r.ip].nlink < 1 THEN Panic("unlink: nlink < 1")
     ELSE /\ icache' = n
          /\ dinode' = iupdate([dinode EXCEPT ![c[r.dp].inum].ents = @ \ {e}], n, r.dp)
          /\ PutWith(p, [r EXCEPT !.dp = 0, !.name = ""], r.dp, "unlinked")
          /\ UNCHANGED strayed /\ OnlyInodes

\* A directory in use: put ip, and then dp, which is still locked.
UnlinkBad(p) ==
  LET r == reg[p]
      c == Loaded(icache, r.ip) IN
  /\ \/ /\ At(p, "unlinkip") /\ CanLock(r.ip) /\ c[r.ip].nlink > 0
        /\ c[r.ip].type = "dir" /\ ~isdirempty(r.ip)
        /\ icache' = c
        /\ PutWith(p, [r EXCEPT !.ip = 0, !.name = ""], r.ip, "unlinkbad")
     \/ /\ At(p, "unlinkbad")
        /\ icache' = [icache EXCEPT ![r.dp].lock = NoProc]
        /\ PutWith(p, [r EXCEPT !.dp = 0], r.dp, "end")
  /\ OnlyCache

UnlinkDone(p) ==
  LET r == reg[p]
      c == [icache EXCEPT ![r.ip].nlink = @ - 1, ![r.ip].lock = NoProc] IN
  /\ At(p, "unlinked")
  /\ icache' = c
  /\ dinode' = iupdate(dinode, c, r.ip)
  /\ PutWith(p, [r EXCEPT !.ip = 0], r.ip, "end")
  /\ UNCHANGED strayed /\ OnlyInodes

Unlink(p) ==
  \/ Unnamed(p, "unlink") \/ UnlinkFind(p) \/ UnlinkEntry(p)
  \/ UnlinkBad(p) \/ UnlinkDone(p)

-----------------------------------------------------------------------------
(* create, and the calls that use it: sys_open, sys_mkdir, sys_mknod *)

sys_create(p, call, type, path) ==
  /\ Begin(p) /\ UNCHANGED <<file, ofile, cwd>>
  /\ StartNamex(p, icache, [Idle EXCEPT !.call = call, !.type = type], path, TRUE, "create")

FreeInums == {i \in Inums : dinode[i].type = "free"}

CreateFind(p) ==
  LET r == reg[p]
      c == Loaded(icache, r.cur)
      i == Min(FreeInums) IN
  /\ At(p, "create") /\ CanLock(r.cur)
  /\ \/ /\ \E j \in dirlookup(r.cur, r.name) :
             /\ CanGet(c, j)
             /\ icache' = iget(c, j)
             /\ PutWith(p, [r EXCEPT !.cur = 0, !.name = "", !.ip = SlotOf(c, j)], r.cur, "exists")
        /\ OnlyCache
     \/ /\ dirlookup(r.cur, r.name) = {} /\ FreeInums # {} /\ CanGet(c, i)
        /\ dinode' = [dinode EXCEPT ![i] = [FreeInode EXCEPT !.type = r.type]]
        /\ icache' = [iget(c, i) EXCEPT ![r.cur].lock = p]
        /\ Set(p, [r EXCEPT !.pc = "made", !.dp = r.cur, !.cur = 0, !.ip = SlotOf(c, i)])
        /\ UNCHANGED strayed /\ OnlyInodes
     \/ /\ dirlookup(r.cur, r.name) = {} /\ FreeInums = {}
        /\ Panic("ialloc: no inodes")

\* The name exists: keep its inode locked if it is a file and a file is wanted.
CreateExists(p) ==
  LET r == reg[p]
      c == Loaded(icache, r.ip) IN
  /\ At(p, "exists") /\ CanLock(r.ip)
  /\ IF r.type = "file" /\ c[r.ip].type = "file"
     THEN icache' = [c EXCEPT ![r.ip].lock = p] /\ Goto(p, "created")
     ELSE icache' = c /\ PutWith(p, [r EXCEPT !.ip = 0], r.ip, "end")
  /\ OnlyCache

\* The new inode is locked and gets its link, a directory its dots, dp its entry;
\* dp is put with ip still locked.
CreateMade(p) ==
  LET r == reg[p]
      c == Loaded(icache, r.ip)
      up == IF r.type = "dir" THEN 1 ELSE 0
      n == [c EXCEPT ![r.ip].nlink = 1, ![r.ip].lock = p,
                     ![r.dp].nlink = @ + up, ![r.dp].lock = NoProc]
      i == c[r.ip].inum
      d == c[r.dp].inum
      e == [dinode EXCEPT ![i].ents = IF r.type = "dir" THEN {<<".", i>>, <<"..", d>>} ELSE {},
                          ![d].ents = @ \cup {<<r.name, i>>}] IN
  /\ At(p, "made") /\ CanLock(r.ip)
  /\ icache' = n
  /\ dinode' = iupdate(iupdate(e, n, r.ip), n, r.dp)
  /\ strayed' = (strayed \/ c[r.dp].nlink = 0)
  /\ PutWith(p, [r EXCEPT !.dp = 0, !.name = ""], r.dp, "created")
  /\ OnlyInodes

\* sys_mkdir and sys_mknod put what create made.
MadeNode(p) ==
  LET s == reg[p].ip IN
  /\ At(p, "created") /\ reg[p].call \notin {"open", "creat"}
  /\ icache' = [icache EXCEPT ![s].lock = NoProc]
  /\ PutWith(p, [reg[p] EXCEPT !.ip = 0], s, "end")
  /\ OnlyCache

Create(p) ==
  \/ Unnamed(p, "create") \/ CreateFind(p) \/ CreateExists(p) \/ CreateMade(p) \/ MadeNode(p)

\* sys_open without O_CREATE; type is "rd" for O_RDONLY.
sys_open(p, mode, path) ==
  /\ Begin(p) /\ UNCHANGED <<file, ofile, cwd>>
  /\ StartNamex(p, icache, [Idle EXCEPT !.call = "open", !.type = mode], path, FALSE, "open")

OpenFound(p) ==
  LET r == reg[p]
      c == Loaded(icache, r.cur) IN
  /\ At(p, "open") /\ CanLock(r.cur)
  /\ IF c[r.cur].type = "dir" /\ r.type # "rd" THEN PutEnd(p, c, r.cur)
     ELSE /\ icache' = [c EXCEPT ![r.cur].lock = p]
          /\ Set(p, [r EXCEPT !.pc = "created", !.ip = r.cur, !.cur = 0])
  /\ OnlyCache

FreeFiles == {f \in Files : file[f].ref = 0}
FreeFds(p) == {d \in Fds : ofile[p][d] = 0}

\* Mistaken sys_open: the inode is only unlocked when there is no file for it.
OpenFileKeeps(p) ==
  LET s == reg[p].ip IN
  /\ At(p, "created") /\ reg[p].call \in {"open", "creat"}
  /\ icache' = [icache EXCEPT ![s].lock = NoProc]
  /\ IF FreeFiles # {} /\ FreeFds(p) # {}
     THEN /\ file' = [file EXCEPT ![Min(FreeFiles)] = [ref |-> 1, ip |-> s]]
          /\ ofile' = [ofile EXCEPT ![p][Min(FreeFds(p))] = Min(FreeFiles)]
     ELSE UNCHANGED <<file, ofile>>
  /\ Return(p)
  /\ UNCHANGED <<dinode, cwd, panic, strayed, calls>>

\* filealloc, fdalloc and the fields of the file, or the reference given back.
OpenFile(p) ==
  LET s == reg[p].ip IN
  /\ At(p, "created") /\ reg[p].call \in {"open", "creat"}
  /\ icache' = [icache EXCEPT ![s].lock = NoProc]
  /\ IF FreeFiles # {} /\ FreeFds(p) # {}
     THEN /\ file' = [file EXCEPT ![Min(FreeFiles)] = [ref |-> 1, ip |-> s]]
          /\ ofile' = [ofile EXCEPT ![p][Min(FreeFds(p))] = Min(FreeFiles)]
          /\ Return(p)
     ELSE PutWith(p, [reg[p] EXCEPT !.ip = 0], s, "end") /\ UNCHANGED <<file, ofile>>
  /\ UNCHANGED <<dinode, cwd, panic, strayed, calls>>

Open(p) == Unnamed(p, "open") \/ OpenFound(p) \/ OpenFile(p)

-----------------------------------------------------------------------------
(* sys_chdir, and exec as far as it uses its inode *)

sys_chdir(p, call, path) ==
  /\ Begin(p) /\ UNCHANGED <<file, ofile, cwd>>
  /\ StartNamex(p, icache, [Idle EXCEPT !.call = call], path, FALSE, call)

Chdir(p) ==
  LET r == reg[p]
      c == Loaded(icache, r.cur) IN
  \/ Unnamed(p, "chdir")
  \/ /\ At(p, "chdir") /\ CanLock(r.cur)
     /\ IF c[r.cur].type # "dir" THEN PutEnd(p, c, r.cur)
        ELSE icache' = c /\ PutWith(p, r, cwd[p], "chdired")
     /\ OnlyCache
  \/ /\ At(p, "chdired")
     /\ cwd' = [cwd EXCEPT ![p] = r.cur] /\ Return(p)
     /\ UNCHANGED <<dinode, icache, file, ofile, panic, strayed, calls>>

Exec(p) ==
  \/ Unnamed(p, "exec")
  \/ /\ At(p, "exec") /\ CanLock(reg[p].cur)
     /\ PutEnd(p, Loaded(icache, reg[p].cur), reg[p].cur)
     /\ OnlyCache

-----------------------------------------------------------------------------
(* The file table: sys_dup, sys_close, fork, exit *)

sys_dup(p) ==
  /\ Begin(p)
  /\ \E d \in Fds :
       /\ ofile[p][d] # 0 /\ FreeFds(p) # {}
       /\ ofile' = [ofile EXCEPT ![p][Min(FreeFds(p))] = ofile[p][d]]
       /\ file' = [file EXCEPT ![ofile[p][d]].ref = @ + 1]
  /\ UNCHANGED <<icache, cwd, reg>>

\* The descriptor goes, and fileclose puts the inode with the last reference.
fileclose(p, d, l) ==
  LET f == ofile[p][d] IN
  /\ ofile' = [ofile EXCEPT ![p][d] = 0]
  /\ file' = [file EXCEPT ![f] = IF @.ref = 1 THEN [ref |-> 0, ip |-> 0]
                                              ELSE [@ EXCEPT !.ref = @ - 1]]
  /\ IF file[f].ref = 1 THEN PutWith(p, [Idle EXCEPT !.call = "close"], file[f].ip, l)
     ELSE Set(p, IF l = "end" THEN Idle ELSE [Idle EXCEPT !.pc = l])
  /\ UNCHANGED <<icache, cwd>>

sys_close(p) == Begin(p) /\ \E d \in Fds : ofile[p][d] # 0 /\ fileclose(p, d, "end")

\* The child has the files and the directory of its parent.
fork(p) ==
  \E q \in Procs :
    /\ Begin(p) /\ cwd[q] = 0
    /\ cwd' = [cwd EXCEPT ![q] = cwd[p]]
    /\ icache' = idup(icache, cwd[p])
    /\ ofile' = [ofile EXCEPT ![q] = ofile[p]]
    /\ file' = [f \in Files |->
         [file[f] EXCEPT !.ref = @ + Cardinality({d \in Fds : ofile[p][d] = f})]]
    /\ UNCHANGED reg

\* exit: every file is closed, then the directory is put.
exit(p) == Begin(p) /\ Goto(p, "exit") /\ UNCHANGED <<icache, file, ofile, cwd>>

Exit(p) ==
  /\ At(p, "exit")
  /\ IF FreeFds(p) # Fds 
     THEN fileclose(p, Min(Fds \ FreeFds(p)), "exit") /\ UNCHANGED <<dinode, panic, strayed, calls>>
     ELSE /\ PutWith(p, [Idle EXCEPT !.call = "exit"], cwd[p], "exited")
          /\ UNCHANGED icache /\ OnlyCache

Exited(p) ==
  /\ At(p, "exited")
  /\ cwd' = [cwd EXCEPT ![p] = 0] /\ Return(p)
  /\ UNCHANGED <<dinode, icache, file, ofile, panic, strayed, calls>>

-----------------------------------------------------------------------------
(* The whole *)

\* A system call, from user mode.
Start(p) ==
  \E x \in Requests :
    \/ x.call = "link" /\ sys_link(p, x.path, x.new)
    \/ x.call = "unlink" /\ sys_unlink(p, x.path)
    \/ x.call \in {"creat", "mkdir", "mknod"} /\ sys_create(p, x.call, x.type, x.path)
    \/ x.call = "open" /\ sys_open(p, x.type, x.path)
    \/ x.call \in {"chdir", "exec"} /\ sys_chdir(p, x.call, x.path)
    \/ x.call = "dup" /\ sys_dup(p)
    \/ x.call = "close" /\ sys_close(p)
    \/ x.call = "fork" /\ fork(p)
    \/ x.call = "exit" /\ exit(p)

Quiet == \A p \in Procs : reg[p] = Idle

\* The power goes with no call under way, or recovery has taken the disk there.
Crash ==
  /\ MayCrash /\ Quiet /\ panic = ""
  /\ Booted(icache', file', ofile', cwd')
  /\ UNCHANGED <<dinode, reg, panic, strayed, calls>>

Next ==
  \/ Crash
  \/ \E p \in Procs :
       \/ Start(p) \/ namex(p) \/ iput(p) \/ IlockPanic(p) \/ IgetPanic(p)
       \/ Link(p) \/ Unlink(p) \/ Create(p) \/ Open(p) \/ Chdir(p) \/ Exec(p)
       \/ Exit(p) \/ Exited(p)

Spec == Init /\ [][Next]_vars

-----------------------------------------------------------------------------
(* Properties *)

\* The references to the inode in slot s: locals of calls, current directories
\* (chdir and exit put theirs before they forget it) and files.
Holders(s) ==
  {<<p, x>> \in Procs \X {"cur", "dp", "ip", "put"} : reg[p][x] = s}
  \cup {<<p, "cwd">> : p \in {q \in Procs : /\ cwd[q] = s
          /\ {reg[q].pc, reg[q].back} \cap {"chdired", "exited"} = {}}}
  \cup {<<f, "file">> : f \in {g \in Files : file[g].ip = s}}

\* Every slot's ref is the number of references to it (fs.c:96-131), every file's
\* the number of descriptors, through every early return of the calls, and a
\* process holds the lock of an inode only while it has a reference to it.
RefsExact ==
  /\ \A s \in Slots : icache[s].ref = Cardinality(Holders(s))
  /\ \A f \in Files : file[f].ref = Cardinality({x \in Procs \X Fds : ofile[x[1]][x[2]] = f})
  /\ \A s \in Slots, p \in Procs : icache[s].lock = p => s \in {reg[p].dp, reg[p].ip, reg[p].put}

\* An inode is in one slot of the cache at most, and a copy marked valid that can
\* be locked agrees with the disk, also when the slot or the inode number has been
\* reused, and even by an ialloc that comes between iput's iupdate and ip->valid = 0
\* (fs.c:343-344).
CacheCoherent ==
  /\ \A s, t \in Slots : s # t /\ icache[s].ref > 0 /\ icache[t].ref > 0
                         => icache[s].inum # icache[t].inum
  /\ \A s \in Slots : icache[s].ref > 0 /\ icache[s].valid /\ Unlocked(s) =>
       /\ icache[s].type = dinode[icache[s].inum].type
       /\ icache[s].nlink = dinode[icache[s].inum].nlink

\* The entries that count as links of i: not ".", and ".." only of a directory
\* that has not been removed.
Links(i) ==
  {x \in Inums \X UNION {{e[1] : e \in dinode[d].ents} : d \in Inums} :
     /\ <<x[2], i>> \in dinode[x[1]].ents
     /\ x[2] # "." /\ (x[2] = ".." => dinode[x[1]].nlink > 0)}

\* With no call under way, which is also the state after a crash, the link count
\* of every inode is the number of its names, an entry names an inode in use, and
\* a directory has no name twice.  create and link do not ask whether the
\* directory they add to has been removed meanwhile, and namex follows the ".." of
\* a removed directory: what comes after that (strayed) is left out.
LinksExact ==
  Quiet /\ ~strayed =>
    /\ \A i \in Inums : dinode[i].nlink = Cardinality(Links(i))
    /\ \A d \in Inums : \A e, f \in dinode[d].ents :
         /\ dinode[e[2]].type # "free" \/ (e[1] = ".." /\ dinode[d].nlink = 0)
         /\ e[1] = f[1] => e = f

\* No call meets a name of a freed inode, or an inode whose links are gone:
\* the panics of ilock (fs.c:310) and sys_unlink (sysfile.c:212) do not happen.
NoFsPanic == ~strayed => panic \notin {"ilock: no type", "unlink: nlink < 1"}

\* iput frees an inode "if the reference and link counts have fallen to zero"
\* (fs.c:118): with no call under way, one without links is in use by somebody.
FreedWhenUnused ==
  Quiet => \A i \in Inums : dinode[i].type # "free" /\ dinode[i].nlink = 0 => Cached(icache, i) # {}

\* Nobody waits for the lock of an inode in a ring: the calls race "to look for
\* deadlocks" (usertests.c:855).
Owner(p) == IF Wants(p) = 0 THEN NoProc ELSE icache[Wants(p)].lock
NoLockRing == ~\E S \in SUBSET Procs : S # {} /\ \A p \in S : Owner(p) \in S
=============================================================================
