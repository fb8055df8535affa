------------------------------- MODULE MCSaifs -------------------------------
(***************************************************************************)
(* Sessions for Saifs.  Four call the VFS directly: with directories, with *)
(* descriptors, and two with a disk whose partition can be mounted at /m   *)
(* or over /sys.  The others use the namespace: mounting providers over    *)
(* each other, writing through handles, below a read-only mount, beside    *)
(* direct writes, filling the event log, looking at the objects in /sys.   *)
(***************************************************************************)
EXTENDS Saifs

Relative1(parts) == [abs |-> FALSE, parts |-> parts]

MCSeeds == <<<<"sys">>, <<"sys", "dev">>, <<"m">>>>
MCRegistry == <<[name |-> "disk0", filesystem |-> "TmpFs", partition |-> FALSE],
                [name |-> "disk0p1", filesystem |-> "Fat32", partition |-> TRUE]>>

\* A machine with one volume named like a built-in object, and one with every
\* kind of object.
Small == [volumes |-> <<[name |-> "tmpfs", mounted |-> TRUE]>>, pci |-> 0, threads |-> <<>>,
          lo |-> <<>>, eth |-> <<>>, wlan |-> <<>>]
Full == [volumes |-> <<[name |-> "tmpfs", mounted |-> TRUE], [name |-> "disk0", mounted |-> FALSE]>>,
         pci |-> 2, threads |-> <<[id |-> 1, state |-> "Running"], [id |-> 2, state |-> "Sleeping"],
                                  [id |-> 3, state |-> "Dead"]>>,
         lo |-> <<[name |-> "lo", up |-> TRUE]>>,
         eth |-> <<[name |-> "eth0", up |-> FALSE]>>, wlan |-> <<[name |-> "eth0", up |-> TRUE]>>]
MCWorlds == {Small, Full}

Idle ==
  [dirs |-> {}, files |-> {}, mounts |-> {}, data |-> {}, modes |-> {}, formats |-> {},
   inodes |-> 5, fds |-> 1, len |-> 3, names |-> {}, points |-> {}, mocks |-> {},
   worlds |-> {Small}, handles |-> 0, events |-> 1, subs |-> 0]

\* Directories and one file, by absolute and relative paths.
TreeSession ==
  [Idle EXCEPT !.dirs = {Path(<<"a">>), Path(<<"a", "b">>), Path(<<"b">>), Path(<<"sys">>),
                         Relative1(<<"..">>), Relative1(<<"..", "a">>)},
               !.files = {Path(<<"b">>)}, !.modes = {read_write_create}, !.inodes = 7, !.len = 0]

\* Two files behind two descriptors, opened to read, to rewrite and to append.
FileSession ==
  [Idle EXCEPT !.dirs = {Path(<<"a">>)}, !.files = {Path(<<"a">>), Path(<<"b">>)},
               !.data = {<<1>>}, !.modes = OpenOptions \ {read_write_create},
               !.inodes = 6, !.fds = 2, !.len = 2]

\* A partition mounted at /m, and files on both sides of the mount.
DiskSession ==
  [Idle EXCEPT !.dirs = {Path(<<"m">>), Path(<<"m", "d">>)},
               !.files = {Path(<<"a">>), Path(<<"m", "a">>)}, !.mounts = {Path(<<"m">>)},
               !.data = {<<1>>}, !.formats = {"Fat32", "Ext4"}, !.len = 1]

\* The partition mounted over /sys.
SysDiskSession ==
  [Idle EXCEPT !.dirs = {Path(<<"sys">>)}, !.files = {Path(<<"a">>), Path(<<"sys", "a">>)},
               !.mounts = {Path(<<"sys">>)}, !.data = {<<1>>}, !.len = 1]

\* Mounts below each other and over a directory, by several spellings.
MountSession ==
  [Idle EXCEPT !.points = {<<"m">>, <<"m", ".", "beta">>, <<"x", "..", "beta">>, <<>>, <<NUL>>},
               !.names = {<<"m", "x">>, <<"m", "beta", "x">>, <<"..", "m">>, <<"m", NUL>>},
               !.mocks = {"mock"}, !.events = 4, !.inodes = 4]

\* Two handles on one file that comes and goes.
HandleSession ==
  [Idle EXCEPT !.names = {<<"a">>}, !.data = {<<1>>, <<2>>}, !.handles = 2, !.inodes = 6, !.len = 2]

\* A handle on a file that is also written and copied directly.
BothSession ==
  [Idle EXCEPT !.names = {<<"a">>}, !.files = {Path(<<"a">>), Path(<<"b">>)},
               !.modes = {append_create}, !.data = {<<1>>}, !.handles = 1, !.inodes = 6, !.len = 2]

\* Creations, removals and writes below a mount that may be read-only.
ReadOnlySession ==
  [Idle EXCEPT !.points = {<<"m">>}, !.names = {<<"a">>, <<"m", "alpha">>}, !.data = {<<1>>},
               !.mocks = {"mock"}, !.events = 2, !.handles = 1, !.inodes = 6]

EventSession ==
  [Idle EXCEPT !.points = {<<"m">>, <<"m", "n">>}, !.mocks = {"mock"}, !.events = 5, !.subs = 1]

\* The objects under /sys, also when it is mounted a second time.
SysSession ==
  [Idle EXCEPT !.points = {<<"s">>}, !.mocks = {"mock"}, !.events = 2, !.handles = 1,
               !.names = {<<"sys", d>> : d \in SysDirectories} \union {<<"sys">>, <<"s", "sys">>},
               !.worlds = MCWorlds]

AllSessions == {TreeSession, FileSession, DiskSession, SysDiskSession, MountSession, HandleSession,
                BothSession, ReadOnlySession, EventSession, SysSession}
==============================================================================
