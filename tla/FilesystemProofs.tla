--------------------------- MODULE FilesystemProofs ---------------------------
(***************************************************************************)
(* Proofs about the two halves of fs.c: the virtual files (Files), for any *)
(* number of tasks and for kernels with and without init_vfs, and the      *)
(* inodes on disk (InodeStore), for any files and any sizes of the table   *)
(* and the bitmaps.                                                        *)
(***************************************************************************)
EXTENDS Files, InodeStore, FiniteSetTheorems, WellFoundedInduction, TLAPS

-----------------------------------------------------------------------------
(* The virtual files. *)
(* What kmalloc gives for a file_t, when it is in use. *)
Open == [ops : {"tty_ops", "junk"}, flags : {"RONLY", "WONLY"}]

FileMap == [FileT -> Open \cup {NULL}]

FdMap == [Task -> [Std -> FileT \cup {NULL}]]

(* The descriptors d, with f for task t. *)
GivenFds(d, t, f) == [d EXCEPT ![t] = f]

(* Every open file of fl is the terminal. *)
AllTty(fl) == \A x \in FileT : fl[x] # NULL => fl[x].ops = "tty_ops"

(* The file_t in use in fl are those the descriptors d of the tasks in T lead  *)
(* to, each for one descriptor of one task. *)
Sound(fl, d, T) ==
  /\ \A t \in T, i \in Std : d[t][i] \in FileT /\ fl[d[t][i]] # NULL
  /\ \A t, u \in T : \A i, j \in Std : d[t][i] = d[u][j] => t = u /\ i = j
  /\ \A x \in FileT : fl[x] # NULL => \E t \in T, i \in Std : d[t][i] = x

There == {t \in Task : life[t] # "none"}

(* The inductive invariant: besides the above, what boot leaves behind and     *)
(* that, with the terminal's vnode, every open file has the terminal's ops. *)
FilesInv ==
  /\ VfsTypeOK
  /\ Sound(file, fds, There)
  /\ stage = "boot" => There = {} /\ status = "up" /\ global_tty = NULL
  /\ stage # "boot" => (with_vfs <=> global_tty = "tty")
  /\ with_vfs => AllTty(file)
  /\ LossExplained

-----------------------------------------------------------------------------
(* There are finitely many tasks, and so finitely many files. *)
LEMMA FiniteTask == IsFiniteSet(Task) /\ Cardinality(Task) \in Nat
<1>1. IsFiniteSet({}) /\ IsFiniteSet({} \cup {Idle}) /\ IsFiniteSet(({} \cup {Idle}) \cup {Reaper})
  BY FS_EmptySet, FS_AddElement
<1>2. IsFiniteSet(KernelTask)
  <2>1. KernelTask = ({} \cup {Idle}) \cup {Reaper} BY DEF KernelTask
  <2> QED BY <1>1, <2>1
<1>3. IsFiniteSet(Task) BY <1>2, FS_Union, FilesAssumption DEF Task
<1> QED BY <1>3, FS_CardinalityType

(* kmalloc has three files for each task. *)
LEMMA FiniteFile == IsFiniteSet(FileT) /\ Cardinality(FileT) = 3 * Cardinality(Task) /\ FileT \subseteq Nat
<1>1. 3 * Cardinality(Task) \in Nat BY FiniteTask
<1>2. IsFiniteSet(1 .. 3 * Cardinality(Task))
      /\ Cardinality(1 .. 3 * Cardinality(Task)) = 3 * Cardinality(Task)
  BY <1>1, FS_Interval
<1> QED BY <1>1, <1>2 DEF FileT

(* A task has three descriptors. *)
LEMMA StdSize == IsFiniteSet(Std) /\ Cardinality(Std) = 3
<1>1. ASSUME NEW b, b = 2 PROVE IsFiniteSet(0 .. b) /\ Cardinality(0 .. b) = 3
  <2>1. b \in Int /\ 0 \in Int BY <1>1
  <2>2. IsFiniteSet(0 .. b) /\ Cardinality(0 .. b) = IF 0 > b THEN 0 ELSE b - 0 + 1
    BY <2>1, FS_Interval
  <2> QED BY <1>1, <2>2
<1>2. IsFiniteSet(0 .. 2) /\ Cardinality(0 .. 2) = 3 BY <1>1
<1> QED BY <1>2 DEF Std

(* The files of the tasks in T: three each. *)
LEMMA HeldCount ==
  ASSUME NEW fl, NEW d, NEW T \in SUBSET Task, Sound(fl, d, T)
  PROVE  LET In == {x \in FileT : fl[x] # NULL}
         IN IsFiniteSet(In) /\ Cardinality(In) = 3 * Cardinality(T)
<1> DEFINE In == {x \in FileT : fl[x] # NULL}
<1> DEFINE g == [p \in T \X Std |-> d[p[1]][p[2]]]
<1>1. IsFiniteSet(T) BY FiniteTask, FS_Subset
<1>2. IsFiniteSet(T \X Std) /\ Cardinality(T \X Std) = Cardinality(T) * 3
  BY <1>1, StdSize, FS_Product
<1>3. Cardinality(T) \in Nat BY <1>1, FS_CardinalityType
<1>4. g \in [T \X Std -> In]
  BY DEF Sound
<1>5. \A x \in In : \E p \in T \X Std : g[p] = x
  <2>1. SUFFICES ASSUME NEW x \in In PROVE \E p \in T \X Std : g[p] = x
    OBVIOUS
  <2>2. PICK t \in T, i \in Std : d[t][i] = x BY DEF Sound
  <2>3. <<t, i>> \in T \X Std /\ g[<<t, i>>] = x BY <2>2
  <2> QED BY <2>3
<1>6. \A p, q \in T \X Std : g[p] = g[q] => p = q
  <2>1. SUFFICES ASSUME NEW p \in T \X Std, NEW q \in T \X Std, g[p] = g[q] PROVE p = q
    OBVIOUS
  <2>2. p = <<p[1], p[2]>> /\ q = <<q[1], q[2]>> /\ p[1] \in T /\ q[1] \in T
        /\ p[2] \in Std /\ q[2] \in Std
    OBVIOUS
  <2>3. d[p[1]][p[2]] = d[q[1]][q[2]] BY <2>1
  <2>4. p[1] = q[1] /\ p[2] = q[2] BY <2>2, <2>3 DEF Sound
  <2> QED BY <2>2, <2>4
<1> HIDE DEF g, In
<1>7. ExistsBijection(T \X Std, In)
  <2>1. g \in Bijection(T \X Std, In)
    BY <1>4, <1>5, <1>6 DEF Bijection, Injection, Surjection, IsInjective
  <2> QED BY <2>1 DEF ExistsBijection
<1>8. IsFiniteSet(In) /\ Cardinality(In) = Cardinality(T) * 3
  BY <1>2, <1>7, FS_Bijection
<1>9. IsFiniteSet(In) /\ Cardinality(In) = 3 * Cardinality(T)
  BY <1>3, <1>8
<1> QED BY <1>9 DEF In

(* A set of numbers with three members has three in ascending order. *)
LEMMA Ascending ==
  ASSUME NEW S \in SUBSET Nat, IsFiniteSet(S), Cardinality(S) >= 3
  PROVE  \E f \in [Std -> S] : \A i, j \in Std : i < j => f[i] < f[j]
<1>0. Cardinality(S) \in Nat BY FS_CardinalityType
<1>n. \A U : IsFiniteSet(U) /\ Cardinality(U) # 0 => \E u \in U : TRUE
  <2>1. \A U : IsFiniteSet(U) /\ Cardinality(U) # 0 => U # {} BY FS_EmptySet
  <2> QED BY <2>1
<1>1. PICK a \in S : TRUE
  <2>1. Cardinality(S) # 0 BY <1>0
  <2> QED BY <2>1, <1>n
<1>2. IsFiniteSet(S \ {a}) /\ Cardinality(S \ {a}) = Cardinality(S) - 1
  BY FS_RemoveElement
<1>3. PICK b \in S \ {a} : TRUE
  <2>1. Cardinality(S \ {a}) # 0 BY <1>0, <1>2
  <2> QED BY <2>1, <1>2, <1>n
<1>4. IsFiniteSet((S \ {a}) \ {b}) /\ Cardinality((S \ {a}) \ {b}) = Cardinality(S) - 2
  <2>1. Cardinality((S \ {a}) \ {b}) = Cardinality(S \ {a}) - 1 /\ IsFiniteSet((S \ {a}) \ {b})
    BY <1>2, FS_RemoveElement
  <2> QED BY <2>1, <1>0, <1>2
<1>5. PICK c \in (S \ {a}) \ {b} : TRUE
  <2>1. Cardinality((S \ {a}) \ {b}) # 0 BY <1>0, <1>4
  <2> QED BY <2>1, <1>4, <1>n
<1>6. \E x, y, z \in S : x < y /\ y < z
  <2>1. a \in Nat /\ b \in Nat /\ c \in Nat /\ a # b /\ a # c /\ b # c OBVIOUS
  <2> QED BY <2>1
<1>7. PICK x \in S, y \in S, z \in S : x < y /\ y < z BY <1>6
<1> DEFINE f == [i \in Std |-> IF i = 0 THEN x ELSE IF i = 1 THEN y ELSE z]
<1>8. f \in [Std -> S] OBVIOUS
<1>9. ASSUME NEW i \in Std, NEW j \in Std, i < j PROVE f[i] < f[j]
  <2>1. x \in Nat /\ y \in Nat /\ z \in Nat OBVIOUS
  <2> QED BY <1>7, <1>9, <2>1 DEF Std
<1> QED BY <1>8, <1>9

(* As long as some task_t is unused, kmalloc has three file_t to give. *)
LEMMA FreshThere ==
  ASSUME NEW fl, NEW d, NEW T \in SUBSET Task, T # Task, Sound(fl, d, T)
  PROVE  /\ Fresh(fl) \in [Std -> {x \in FileT : fl[x] = NULL}]
         /\ \A i, j \in Std : i < j => Fresh(fl)[i] < Fresh(fl)[j]
<1> DEFINE In == {x \in FileT : fl[x] # NULL}
           Free == {x \in FileT : fl[x] = NULL}
<1>1. IsFiniteSet(In) /\ Cardinality(In) = 3 * Cardinality(T) BY HeldCount
<1>2. IsFiniteSet(T) /\ Cardinality(T) \in Nat /\ Cardinality(T) < Cardinality(Task)
  <2>1. IsFiniteSet(T) /\ Cardinality(T) <= Cardinality(Task) /\ Cardinality(T) # Cardinality(Task)
    BY FiniteTask, FS_Subset
  <2> QED BY <2>1, FiniteTask, FS_CardinalityType
<1>3. Free = FileT \ In /\ FileT \cap In = In OBVIOUS
<1>4. IsFiniteSet(Free) /\ Cardinality(Free) = Cardinality(FileT) - Cardinality(In)
  <2>1. IsFiniteSet(FileT \ In) /\ Cardinality(FileT \ In) = Cardinality(FileT) - Cardinality(FileT \cap In)
    BY FiniteFile, FS_Difference
  <2> HIDE DEF In, Free
  <2> QED BY <1>3, <2>1
<1>5. Cardinality(Free) >= 3 BY <1>1, <1>2, <1>4, FiniteFile, FiniteTask
<1>6. Free \subseteq Nat BY FiniteFile
<1> HIDE DEF Free
<1>7. \E f \in [Std -> Free] : \A i, j \in Std : i < j => f[i] < f[j]
  BY <1>4, <1>5, <1>6, Ascending
<1> QED BY <1>7 DEF Fresh, Free
-----------------------------------------------------------------------------
(* create_task opens three files nobody has for a task that has none. *)
LEMMA CreateSound ==
  ASSUME NEW fl \in FileMap, NEW d \in FdMap,
         NEW T \in SUBSET Task, NEW t \in Task \ T, Sound(fl, d, T),
         NEW v \in {"tty", NULL},
         NEW gl, gl = create_task(fl, v, Fresh(fl)),
         NEW e, e = GivenFds(d, t, Fresh(fl))
  PROVE  /\ gl \in FileMap /\ e \in FdMap /\ Sound(gl, e, T \cup {t})
         /\ v = "tty" /\ AllTty(fl) => AllTty(gl)
<1> DEFINE f == Fresh(fl)
<1>a. \A u \in T, i \in Std : d[u][i] \in FileT /\ fl[d[u][i]] # NULL BY DEF Sound
<1>b. \A s, u \in T : \A i, j \in Std : d[s][i] = d[u][j] => s = u /\ i = j BY DEF Sound
<1>c. \A x \in FileT : fl[x] # NULL => \E u \in T, i \in Std : d[u][i] = x BY DEF Sound
<1>1. /\ f \in [Std -> FileT]
      /\ \A i \in Std : fl[f[i]] = NULL
      /\ \A i, j \in Std : f[i] = f[j] => i = j
  <2>1. T # Task OBVIOUS
  <2>2. /\ f \in [Std -> {x \in FileT : fl[x] = NULL}]
        /\ \A i, j \in Std : i < j => f[i] < f[j]
    BY <2>1, FreshThere
  <2> HIDE DEF f
  <2>3. f \in [Std -> FileT] /\ \A i \in Std : fl[f[i]] = NULL BY <2>2
  <2>4. \A i, j \in Std : f[i] = f[j] => i = j
    <3>1. ASSUME NEW i \in Std, NEW j \in Std, i < j PROVE f[i] # f[j]
      <4>1. f[i] \in Nat /\ f[j] \in Nat BY <2>3, FiniteFile
      <4> QED BY <2>2, <3>1, <4>1
    <3>2. \A i, j \in Std : i < j \/ i = j \/ j < i BY DEF Std
    <3> QED BY <3>1, <3>2
  <2> QED BY <2>3, <2>4
<1> HIDE DEF f
<1>2. \A fg : open_file(v, fg).ops = (IF v = "tty" THEN "tty_ops" ELSE "junk")
  BY DEF open_file
<1>3. \A fg \in {"RONLY", "WONLY"} : open_file(v, fg) \in Open
  BY DEF open_file, Open
<1>4. \A x \in FileT : /\ (\E i \in Std : f[i] = x) => gl[x] \in Open /\ (v = "tty" => gl[x].ops = "tty_ops")
                       /\ ~(\E i \in Std : f[i] = x) => gl[x] = fl[x]
  BY <1>2, <1>3 DEF create_task, f
<1>5. gl \in FileMap
  <2>1. gl = [x \in FileT |-> gl[x]] BY DEF create_task
  <2>2. \A x \in FileT : fl[x] \in Open \cup {NULL} BY DEF FileMap
  <2>3. ASSUME NEW x \in FileT PROVE gl[x] \in Open \cup {NULL}
    <3>1. gl[x] \in Open \/ gl[x] = fl[x] BY <1>4, Zenon
    <3> QED BY <3>1, <2>2, Zenon
  <2> QED BY <2>1, <2>3, Zenon DEF FileMap
<1>6. NULL \notin Open BY FilesAssumption DEF Open
<1>7. e \in FdMap BY <1>1 DEF FdMap, GivenFds, f
<1>8. e[t] = f /\ \A u \in T : e[u] = d[u] BY DEF FdMap, GivenFds, f
<1>9. \A u \in T \cup {t}, i \in Std : e[u][i] \in FileT /\ gl[e[u][i]] # NULL
  <2>1. ASSUME NEW i \in Std PROVE e[t][i] \in FileT /\ gl[e[t][i]] # NULL
    <3>1. e[t][i] = f[i] /\ f[i] \in FileT BY <1>1, <1>8
    <3>2. gl[f[i]] \in Open BY <3>1, <1>4, Zenon
    <3> QED BY <3>1, <3>2, <1>6
  <2>2. ASSUME NEW u \in T, NEW i \in Std PROVE e[u][i] \in FileT /\ gl[e[u][i]] # NULL
    <3>1. e[u][i] \in FileT /\ fl[e[u][i]] # NULL BY <1>8, <1>a
    <3> QED BY <3>1, <1>1, <1>4
  <2> QED BY <2>1, <2>2
<1>10. \A s, u \in T \cup {t} : \A i, j \in Std : e[s][i] = e[u][j] => s = u /\ i = j
  <2>1. ASSUME NEW s \in T, NEW i \in Std, NEW j \in Std PROVE e[s][i] # e[t][j]
    <3>1. fl[e[s][i]] # NULL BY <1>8, <1>a
    <3>2. fl[e[t][j]] = NULL BY <1>1, <1>8
    <3> QED BY <3>1, <3>2
  <2>2. ASSUME NEW s \in T, NEW u \in T, NEW i \in Std, NEW j \in Std, e[s][i] = e[u][j]
        PROVE  s = u /\ i = j
    <3>1. d[s][i] = d[u][j] BY <1>8, <2>2
    <3> QED BY <3>1, <1>b
  <2>3. \A i, j \in Std : e[t][i] = e[t][j] => i = j BY <1>1, <1>8
  <2> QED BY <2>1, <2>2, <2>3
<1>11. \A x \in FileT : gl[x] # NULL => \E u \in T \cup {t}, i \in Std : e[u][i] = x
  <2>1. SUFFICES ASSUME NEW x \in FileT, gl[x] # NULL
                 PROVE  \E u \in T \cup {t}, i \in Std : e[u][i] = x
    OBVIOUS
  <2>2. CASE \E i \in Std : f[i] = x BY <2>2, <1>8
  <2>3. CASE ~ \E i \in Std : f[i] = x
    <3>1. fl[x] # NULL BY <1>4, <2>1, <2>3
    <3>2. PICK u \in T, i \in Std : d[u][i] = x BY <3>1, <1>c
    <3> QED BY <3>2, <1>8
  <2> QED BY <2>2, <2>3
<1>12. ASSUME v = "tty", AllTty(fl) PROVE AllTty(gl)
  <2>1. ASSUME NEW x \in FileT, gl[x] # NULL PROVE gl[x].ops = "tty_ops"
    <3>1. CASE \E i \in Std : f[i] = x BY <3>1, <1>4, <1>12, Zenon
    <3>2. CASE ~ \E i \in Std : f[i] = x
      <4>1. gl[x] = fl[x] BY <3>2, <1>4, Zenon
      <4> QED BY <4>1, <2>1, <1>12, Zenon DEF AllTty
    <3> QED BY <3>1, <3>2
  <2> QED BY <2>1, Zenon DEF AllTty
<1> QED BY <1>5, <1>7, <1>9, <1>10, <1>11, <1>12 DEF Sound

-----------------------------------------------------------------------------
(* The vnodes' links after init_vfs. *)
LEMMA VnodeTypes ==
  ASSUME init_vfs
  PROVE  node' \in [Node -> [parent : Node \cup {NULL}, children : Node \cup {NULL},
                             next_sibling : Node \cup {NULL}] \cup {NULL}]
<1> DEFINE V == [parent : Node \cup {NULL}, children : Node \cup {NULL},
                 next_sibling : Node \cup {NULL}]
           n0 == [n \in Node |-> create_vnode]
           n1 == mount_file_on_dir(n0, "tty", "dev")
           m0 == [n0 EXCEPT !["tty"].parent = "dev"]
           m1 == [n1 EXCEPT !["dev"].parent = "/"]
<1>1. n0 \in [Node -> V] BY DEF create_vnode
<1>2. {"/", "dev", "tty"} = Node BY DEF Node
<1>3. m0 \in [Node -> V] /\ m0["dev"].children = NULL
  BY <1>2 DEF create_vnode
<1>4. n1 = [m0 EXCEPT !["dev"].children = "tty"] BY <1>3 DEF mount_file_on_dir
<1>5. n1 \in [Node -> V] /\ n1["/"].children = NULL
  <2>1. m0["/"] = create_vnode BY <1>2
  <2> HIDE DEF m0, n1
  <2>2. n1 \in [Node -> V] BY <1>2, <1>3, <1>4
  <2>3. n1["/"] = m0["/"] BY <1>2, <1>3, <1>4
  <2> QED BY <2>1, <2>2, <2>3 DEF create_vnode
<1> HIDE DEF n1
<1>6. m1 \in [Node -> V] /\ m1["/"].children = NULL BY <1>2, <1>5
<1>7. mount_file_on_dir(n1, "dev", "/") = [m1 EXCEPT !["/"].children = "dev"]
  BY <1>6 DEF mount_file_on_dir
<1>8. [m1 EXCEPT !["/"].children = "dev"] \in [Node -> V]
  <2> HIDE DEF m1
  <2> QED BY <1>2, <1>6
<1>9. node' = mount_file_on_dir(n1, "dev", "/") BY DEF init_vfs, n1
<1> QED BY <1>7, <1>8, <1>9

(* The invariant holds before kernel_main runs. *)
LEMMA FilesInit == VfsInit => FilesInv
<1> SUFFICES ASSUME VfsInit PROVE FilesInv OBVIOUS
<1>1. There = {} BY DEF VfsInit, There
<1>2. VfsTypeOK BY DEF VfsInit, VfsTypeOK
<1>3. Sound(file, fds, There) BY <1>1 DEF VfsInit, Sound
<1>4. LossExplained BY DEF VfsInit, LossExplained
<1>5. AllTty(file) BY DEF VfsInit, AllTty
<1> QED BY <1>1, <1>2, <1>3, <1>4, <1>5 DEF FilesInv, VfsInit

(* kernel_main opens the files of the first two tasks, idle and the reaper. *)
LEMMA KernelMainInv == FilesInv /\ status = "up" /\ kernel_main => FilesInv'
<1> SUFFICES ASSUME FilesInv, status = "up", kernel_main PROVE FilesInv' OBVIOUS
<1> DEFINE v == global_tty'
           f1 == Fresh(file)
           fl == create_task(file, v, f1)
           f2 == Fresh(fl)
           d1 == [fds EXCEPT ![Idle] = f1]
<1> USE DEF FilesInv
<1>1. stage = "boot" /\ There = {} /\ VfsTypeOK /\ stage' = "sti" BY DEF kernel_main
<1>2. /\ v \in {"tty", NULL}
      /\ with_vfs' = with_vfs
      /\ with_vfs <=> v = "tty"
  <2>1. with_vfs \in BOOLEAN /\ NULL # "tty" BY FilesAssumption DEF VfsTypeOK
  <2>2. CASE with_vfs BY <2>1, <2>2 DEF kernel_main, init_vfs
  <2>3. CASE ~with_vfs BY <2>1, <2>3, <1>1 DEF kernel_main, vfs
  <2> QED BY <2>2, <2>3
<1>3. node' \in [Node -> [parent : Node \cup {NULL}, children : Node \cup {NULL},
                           next_sibling : Node \cup {NULL}] \cup {NULL}]
  <2>1. CASE with_vfs BY <2>1, VnodeTypes DEF kernel_main
  <2>2. CASE ~with_vfs BY <2>2, <1>1 DEF kernel_main, vfs, VfsTypeOK
  <2> QED BY <2>1, <2>2
<1>4. /\ Idle \in Task \ There /\ Reaper \in Task \ {Idle} /\ Idle # Reaper
      /\ There \cup {Idle} \in SUBSET Task
  BY <1>1, FilesAssumption DEF Task, KernelTask
<1>5. \A x \in FileT : file[x] = NULL BY <1>1 DEF Sound
<1>6. file \in FileMap /\ fds \in FdMap BY <1>1 DEF VfsTypeOK, Open, FileMap, FdMap
<1>7. /\ fl \in FileMap /\ d1 \in FdMap /\ Sound(fl, d1, There \cup {Idle})
      /\ v = "tty" => AllTty(fl)
  <2>1. Sound(file, fds, There) /\ There \in SUBSET Task BY DEF There
  <2>2. d1 = GivenFds(fds, Idle, Fresh(file)) BY DEF GivenFds
  <2>3. fl = create_task(file, v, Fresh(file)) OBVIOUS
  <2>4. AllTty(file) BY <1>5 DEF AllTty
  <2> HIDE DEF FilesInv, v, d1, fl
  <2> QED BY <1>2, <1>4, <1>6, <2>1, <2>2, <2>3, <2>4, CreateSound
<1>8. fds' = GivenFds(d1, Reaper, Fresh(fl)) /\ file' = create_task(fl, v, Fresh(fl))
  BY DEF kernel_main, GivenFds
<1> HIDE DEF fl, d1, v, FilesInv
<1>9. /\ file' \in FileMap /\ fds' \in FdMap /\ Sound(file', fds', (There \cup {Idle}) \cup {Reaper})
      /\ v = "tty" => AllTty(file')
  <2>1. Reaper \in Task \ (There \cup {Idle}) BY <1>1, <1>4
  <2> QED BY <1>2, <1>4, <1>7, <1>8, <2>1, CreateSound
<1>10. /\ There' = (There \cup {Idle}) \cup {Reaper}
       /\ life' \in [Task -> {"none", "live", "dead"}]
  BY <1>1 DEF kernel_main, There, Task, KernelTask
<1>11. VfsTypeOK' BY <1>1, <1>2, <1>3, <1>9, <1>10 DEF VfsTypeOK, Open, FileMap, FdMap, kernel_main, v
<1>12. LossExplained' BY <1>1 DEF LossExplained, kernel_main
<1>13. Sound(file, fds, There)' BY <1>9, <1>10 DEF Sound
<1>14. (with_vfs => AllTty(file))' BY <1>2, <1>9 DEF AllTty
<1> QED BY <1>1, <1>2, <1>11, <1>12, <1>13, <1>14 DEF v, FilesInv

(* A task is started by the `t' that is typed: it gets files of its own, or    *)
(* the kernel halts, which only one without the terminal's vnode does. *)
LEMMA EnqueueInv == FilesInv /\ status = "up" /\ enqueue_task => FilesInv'
<1> SUFFICES ASSUME FilesInv, status = "up", enqueue_task PROVE FilesInv' OBVIOUS
<1>1. PICK t \in UserTask :
        /\ life[t] = "none"
        /\ IF global_tty = NULL /\ stage = "up"
           THEN status' = "halted" /\ UNCHANGED <<file, fds, life>>
           ELSE /\ file' = create_task(file, global_tty, Fresh(file))
                /\ fds' = [fds EXCEPT ![t] = Fresh(file)]
                /\ life' = [life EXCEPT ![t] = "live"]
                /\ UNCHANGED status
  BY DEF enqueue_task
<1>2. /\ stage # "boot" /\ stage' = stage /\ with_vfs' = with_vfs /\ node' = node
      /\ global_tty' = global_tty /\ passed' = passed
  BY DEF enqueue_task, vfs
<1>3. /\ VfsTypeOK /\ Sound(file, fds, There) /\ (with_vfs <=> global_tty = "tty")
      /\ (with_vfs => AllTty(file)) /\ LossExplained
  BY <1>2 DEF FilesInv
<1>4. NULL # "tty" /\ with_vfs \in BOOLEAN /\ t \in Task
  BY <1>3, FilesAssumption DEF VfsTypeOK, Task
<1>5. CASE global_tty = NULL /\ stage = "up"
  <2>1. status' = "halted" /\ UNCHANGED <<file, fds, life>> BY <1>1, <1>5
  <2>2. There' = There BY <2>1 DEF There
  <2>3. Sound(file, fds, There)' BY <1>3, <2>1, <2>2 DEF Sound
  <2>4. VfsTypeOK' BY <1>2, <1>3, <2>1 DEF VfsTypeOK
  <2>5. LossExplained' BY <1>2, <1>3, <1>4, <1>5, <2>1 DEF LossExplained
  <2>6. AllTty(file)' <=> AllTty(file) BY <2>1 DEF AllTty
  <2> QED BY <1>2, <1>3, <2>3, <2>4, <2>5, <2>6 DEF FilesInv
<1>6. CASE ~(global_tty = NULL /\ stage = "up")
  <2>1. /\ file' = create_task(file, global_tty, Fresh(file))
        /\ fds' = GivenFds(fds, t, Fresh(file))
        /\ life' = [life EXCEPT ![t] = "live"]
        /\ status' = status
    BY <1>1, <1>6 DEF GivenFds
  <2>2. /\ file \in FileMap /\ fds \in FdMap /\ There \in SUBSET Task /\ t \in Task \ There
        /\ global_tty \in {"tty", NULL}
    BY <1>1, <1>3, <1>4 DEF VfsTypeOK, FileMap, FdMap, Open, There
  <2>3. /\ file' \in FileMap /\ fds' \in FdMap /\ Sound(file', fds', There \cup {t})
        /\ global_tty = "tty" /\ AllTty(file) => AllTty(file')
    BY <1>3, <2>1, <2>2, CreateSound
  <2>4. There' = There \cup {t} /\ life' \in [Task -> {"none", "live", "dead"}]
    BY <1>3, <1>4, <2>1 DEF There, VfsTypeOK
  <2>5. Sound(file, fds, There)' BY <2>3, <2>4 DEF Sound
  <2>6. VfsTypeOK' BY <1>2, <1>3, <2>1, <2>3, <2>4 DEF VfsTypeOK, FileMap, FdMap, Open
  <2>7. LossExplained' BY <1>2, <2>1 DEF LossExplained
  <2>8. (with_vfs => AllTty(file))' BY <1>2, <1>3, <2>3 DEF AllTty
  <2> QED BY <1>2, <1>3, <2>5, <2>6, <2>7, <2>8 DEF FilesInv
<1> QED BY <1>5, <1>6

(* A system call through one of the three descriptors of a live task reaches   *)
(* an open file. *)
LEMMA SyscallInv == FilesInv /\ status = "up" /\ syscall => FilesInv'
<1> SUFFICES ASSUME FilesInv, status = "up", syscall PROVE FilesInv' OBVIOUS
<1> DEFINE f(t, fd) == IF fd \in Std THEN file[fds[t][fd]] ELSE NULL
<1>1. PICK t \in UserTask, fd \in 0 .. MAX_FD, call \in {"read", "write", "ioctl"}, buffer \in Buffer :
        /\ life[t] = "live"
        /\ status' \in IF f(t, fd) = NULL THEN {"up", "halted", "wild"}
                       ELSE IF Refused(call, f(t, fd)) THEN {"up"}
                       ELSE IF f(t, fd).ops = "junk" THEN {"up", "halted", "wild"}
                       ELSE After(call, buffer)
        /\ passed' = passed \cup {buffer} \cup (IF fd \in Std THEN {} ELSE {"fd"})
  BY DEF syscall
<1>0. After(call, buffer) \subseteq {"up", "halted", "wild"}
      /\ ("halted" \in After(call, buffer) => buffer = "unmapped")
      /\ ("wild" \in After(call, buffer) => buffer = "kernel")
  BY <1>1 DEF After, Buffer
<1>2. /\ stage # "boot" /\ stage' = stage /\ with_vfs' = with_vfs /\ node' = node
      /\ global_tty' = global_tty /\ file' = file /\ fds' = fds /\ life' = life
  BY DEF syscall, vfs
<1>3. /\ VfsTypeOK /\ Sound(file, fds, There) /\ (with_vfs <=> global_tty = "tty")
      /\ (with_vfs => AllTty(file))
  BY <1>2 DEF FilesInv
<1>4. There' = There BY <1>2 DEF There
<1>5. Sound(file, fds, There)' BY <1>2, <1>3, <1>4 DEF Sound
<1>6. VfsTypeOK'
  <2>1. passed' \subseteq Buffer \cup {"fd"} BY <1>1, <1>3 DEF VfsTypeOK
  <2>2. status' \in {"up", "halted", "wild"} BY <1>0, <1>1
  <2> QED BY <1>2, <1>3, <2>1, <2>2 DEF VfsTypeOK
<1>7. (with_vfs => AllTty(file))' BY <1>2, <1>3 DEF AllTty
<1>8. t \in There BY <1>1 DEF There, Task
<1>9. fd \in Std => fds[t][fd] \in FileT /\ file[fds[t][fd]] # NULL BY <1>3, <1>8 DEF Sound
<1>10. ASSUME fd \in Std, with_vfs, status' # "up" PROVE status' \in After(call, buffer)
  <2>1. f(t, fd) # NULL /\ f(t, fd).ops = "tty_ops" BY <1>3, <1>9, <1>10 DEF AllTty
  <2> QED BY <1>1, <1>10, <2>1
<1>11. LossExplained'
  <2>1. fd \notin Std => "fd" \in passed' BY <1>1
  <2>2. buffer \in passed' BY <1>1
  <2>3. status' = "halted" => fd \notin Std \/ ~with_vfs \/ buffer = "unmapped" BY <1>0, <1>10
  <2>4. status' = "wild" => fd \notin Std \/ ~with_vfs \/ buffer = "kernel" BY <1>0, <1>10
  <2>5. life'[t] = "live" BY <1>1, <1>2
  <2> QED BY <1>2, <2>1, <2>2, <2>3, <2>4, <2>5 DEF LossExplained
<1> QED BY <1>2, <1>3, <1>5, <1>6, <1>7, <1>11 DEF FilesInv

(* The reaper frees the files of the dead and no others. *)
LEMMA ReaperInv == FilesInv /\ status = "up" /\ reaper_task_loop => FilesInv'
<1> SUFFICES ASSUME FilesInv, status = "up", reaper_task_loop PROVE FilesInv' OBVIOUS
<1> DEFINE Dead == {t \in UserTask : life[t] = "dead"}
<1>1. /\ file' = [x \in FileT |-> IF \E t \in Dead : x \in Freed(t) THEN NULL ELSE file[x]]
      /\ life' = [t \in Task |-> IF t \in Dead THEN "none" ELSE life[t]]
      /\ stage' = stage /\ with_vfs' = with_vfs /\ node' = node /\ global_tty' = global_tty
      /\ fds' = fds /\ status' = status /\ passed' = passed
  BY DEF reaper_task_loop, vfs
<1>2. VfsTypeOK /\ Sound(file, fds, There) /\ (with_vfs => AllTty(file)) BY DEF FilesInv
<1>3. There' = There \ Dead /\ Dead \subseteq There
  BY <1>1, <1>2 DEF There, Task, VfsTypeOK
<1>4. life' \in [Task -> {"none", "live", "dead"}] BY <1>1, <1>2 DEF VfsTypeOK
<1>5. \A x \in FileT, t \in Task : x \in Freed(t) <=> \E i \in Std : fds[t][i] = x BY DEF Freed
<1>6. file' \in [FileT -> Open \cup {NULL}]
  <2>1. file \in [FileT -> Open \cup {NULL}] BY <1>2 DEF VfsTypeOK, Open
  <2> QED BY <1>1, <2>1
<1>7. VfsTypeOK' BY <1>1, <1>2, <1>4, <1>6 DEF VfsTypeOK, Open
<1>8. Dead \subseteq Task BY DEF Task
<1>9. /\ \A t \in There, i \in Std : fds[t][i] \in FileT /\ file[fds[t][i]] # NULL
      /\ \A t, u \in There : \A i, j \in Std : fds[t][i] = fds[u][j] => t = u /\ i = j
      /\ \A x \in FileT : file[x] # NULL => \E t \in There, i \in Std : fds[t][i] = x
  BY <1>2 DEF Sound
<1> HIDE DEF Dead
<1>10. \A t \in There', i \in Std : fds'[t][i] \in FileT /\ file'[fds'[t][i]] # NULL
  <2>1. SUFFICES ASSUME NEW t \in There \ Dead, NEW i \in Std
                 PROVE  fds[t][i] \in FileT /\ file'[fds[t][i]] # NULL
    BY <1>1, <1>3
  <2>2. fds[t][i] \in FileT /\ file[fds[t][i]] # NULL BY <1>9
  <2>3. ~ \E u \in Dead : fds[t][i] \in Freed(u)
    BY <1>3, <1>5, <1>8, <1>9, <2>2
  <2> QED BY <1>1, <2>2, <2>3
<1>11. \A t, u \in There' : \A i, j \in Std : fds'[t][i] = fds'[u][j] => t = u /\ i = j
  BY <1>1, <1>3, <1>9
<1>12. \A x \in FileT : file'[x] # NULL => \E t \in There', i \in Std : fds'[t][i] = x
  <2>1. SUFFICES ASSUME NEW x \in FileT, file'[x] # NULL
                 PROVE  \E t \in There \ Dead, i \in Std : fds[t][i] = x
    BY <1>1, <1>3
  <2>2. file'[x] = file[x] /\ ~ \E t \in Dead : x \in Freed(t) BY <1>1, <2>1
  <2>3. PICK t \in There, i \in Std : fds[t][i] = x BY <1>9, <2>1, <2>2
  <2>4. t \notin Dead BY <1>5, <1>8, <2>2, <2>3
  <2> QED BY <2>3, <2>4
<1>13. Sound(file, fds, There)' BY <1>10, <1>11, <1>12 DEF Sound
<1>14. (with_vfs => AllTty(file))'
  <2>1. \A x \in FileT : file'[x] # NULL => file'[x] = file[x] BY <1>1
  <2> QED BY <1>1, <1>2, <2>1 DEF AllTty
<1>15. LossExplained' BY <1>1 DEF LossExplained
<1>16. (stage = "boot" => There = {} /\ status = "up" /\ global_tty = NULL)'
  BY <1>1, <1>3 DEF FilesInv
<1>17. (stage # "boot" => (with_vfs <=> global_tty = "tty"))' BY <1>1 DEF FilesInv
<1> QED BY <1>7, <1>13, <1>14, <1>15, <1>16, <1>17 DEF FilesInv

(* Every step preserves it. *)
LEMMA FilesStep == FilesInv /\ [VfsNext]_vfsvars => FilesInv'
<1> SUFFICES ASSUME FilesInv, [VfsNext]_vfsvars PROVE FilesInv' OBVIOUS
<1>1. CASE UNCHANGED vfsvars
  <2>1. There' = There BY <1>1 DEF There, vfsvars
  <2>2. Sound(file, fds, There)' BY <1>1, <2>1 DEF Sound, FilesInv, vfsvars
  <2>3. AllTty(file)' <=> AllTty(file) BY <1>1 DEF AllTty, vfsvars
  <2>4. VfsTypeOK' BY <1>1 DEF FilesInv, VfsTypeOK, vfsvars, vfs
  <2>5. LossExplained' BY <1>1 DEF FilesInv, LossExplained, vfsvars, vfs
  <2> QED BY <1>1, <2>1, <2>2, <2>3, <2>4, <2>5 DEF FilesInv, vfsvars, vfs
<1>2. CASE status = "up" /\ kernel_main BY <1>2, KernelMainInv
<1>3. CASE status = "up" /\ unmap_identity
  <2>1. /\ There' = There /\ file' = file /\ fds' = fds /\ with_vfs' = with_vfs
        /\ global_tty' = global_tty /\ stage # "boot" /\ stage' = "up"
    BY <1>3 DEF unmap_identity, There, vfs
  <2>2. Sound(file, fds, There)' BY <2>1 DEF Sound, FilesInv
  <2>3. AllTty(file)' <=> AllTty(file) BY <2>1 DEF AllTty
  <2>4. VfsTypeOK' BY <1>3 DEF FilesInv, VfsTypeOK, unmap_identity, vfs
  <2>5. LossExplained' BY <1>3 DEF LossExplained, unmap_identity
  <2> QED BY <2>1, <2>2, <2>3, <2>4, <2>5 DEF FilesInv
<1>4. CASE status = "up" /\ enqueue_task BY <1>4, EnqueueInv
<1>5. CASE status = "up" /\ syscall BY <1>5, SyscallInv
<1>6. CASE status = "up" /\ task_exit
  <2>0. VfsTypeOK BY DEF FilesInv
  <2>1. PICK t \in UserTask : life[t] = "live" /\ life' = [life EXCEPT ![t] = "dead"]
    BY <1>6 DEF task_exit
  <2>2. /\ file' = file /\ fds' = fds /\ with_vfs' = with_vfs /\ node' = node
        /\ global_tty' = global_tty /\ stage # "boot" /\ stage' = stage
        /\ status' = status /\ passed' = passed
    BY <1>6 DEF task_exit, vfs
  <2>3. There' = There /\ life' \in [Task -> {"none", "live", "dead"}]
    BY <2>0, <2>1 DEF There, VfsTypeOK, Task
  <2>4. Sound(file, fds, There)' BY <2>2, <2>3 DEF Sound, FilesInv
  <2>5. AllTty(file)' <=> AllTty(file) BY <2>2 DEF AllTty
  <2>6. VfsTypeOK' BY <2>0, <2>2, <2>3 DEF VfsTypeOK
  <2>7. LossExplained' BY <1>6, <2>2 DEF LossExplained
  <2> QED BY <2>2, <2>3, <2>4, <2>5, <2>6, <2>7 DEF FilesInv
<1>7. CASE status = "up" /\ reaper_task_loop BY <1>7, ReaperInv
<1> QED BY <1>1, <1>2, <1>3, <1>4, <1>5, <1>6, <1>7 DEF VfsNext

(* It holds always. *)
LEMMA FilesAlways == VfsSpec => []FilesInv
BY FilesInit, FilesStep, PTL DEF VfsSpec

(* The links, files, descriptors and tasks keep their types, with the vnodes   *)
(* init_vfs builds (fs.c:22-34, :214-243). *)
THEOREM FilesTypes == VfsSpec => []VfsTypeOK
<1>1. FilesInv => VfsTypeOK BY DEF FilesInv
<1> QED BY <1>1, FilesAlways, PTL

(* Through every order of starts, exits and rounds of the reaper, of any       *)
(* number of tasks, the file_t in use are the three of each task that exists,  *)
(* its own and no other's (create_task, reaper_task_loop). *)
THEOREM Accounted == VfsSpec => []FilesAccounted
<1>1. FilesInv => FilesAccounted
  <2> SUFFICES ASSUME FilesInv PROVE FilesAccounted OBVIOUS
  <2> DEFINE In == {x \in FileT : file[x] # NULL}
             Held == UNION {Holds(t) : t \in There}
  <2>1. Sound(file, fds, There) /\ There \in SUBSET Task BY DEF FilesInv, There
  <2>2. Cardinality(In) = 3 * Cardinality(There) BY <2>1, HeldCount
  <2>3. \A x : x \in Held <=> \E t \in There, i \in Std : fds[t][i] = x BY DEF Holds
  <2>4. In = Held
    <3> HIDE DEF Held
    <3> QED BY <2>1, <2>3 DEF Sound
  <2> QED BY <2>2, <2>4 DEF FilesAccounted, There
<1> QED BY <1>1, FilesAlways, PTL

(* In a kernel that calls init_vfs a system call halts the kernel only if some *)
(* program passed a descriptor it does not have or a buffer that is not mapped, *)
(* and lets it run wild only after such a descriptor or a buffer in the kernel; *)
(* without init_vfs the start of a program halts it (sys_read, sys_write,       *)
(* sys_ioctl, tty_read, open_file, kernel_main). *)
THEOREM LossIsExplained == VfsSpec => []LossExplained
<1>1. FilesInv => LossExplained BY DEF FilesInv
<1> QED BY <1>1, FilesAlways, PTL

-----------------------------------------------------------------------------
(* The inode store. *)
Slot == 0 .. PER_SECTOR - 1
AtMap == [0 .. MAX_SECTORS - 1 -> Garbage \cup 0 .. DATA_BITS - 1]

(* What a slot may hold. *)
Content ==
  {Zero} \cup {Inode(Sectors[f], at) : f \in File, at \in AtMap}
         \cup {Data(f, k) : f \in File, k \in 0 .. MAX_SECTORS - 1}

Job == [file : File, num : 0 .. INODE_BITS - 1, at : AtMap, count : 0 .. MAX_SECTORS,
        bmap : SUBSET (0 .. DATA_BITS - 1)]

Types ==
  /\ inode_bmap \subseteq 0 .. INODE_BITS - 1
  /\ data_bmap \subseteq 0 .. DATA_BITS - 1
  /\ sector \in [Sector -> [Slot -> Content]]
  /\ pc \in {"ibmap", "dbmap", "iblock", "idle", "data", "inode"}
  /\ IF pc \in {"data", "inode"} THEN job \in Job ELSE job = NoJob
  /\ wild \in BOOLEAN
  /\ made \subseteq Job /\ IsFiniteSet(made)
  /\ cuts \in 0 .. CUT_BOUND

(* The numbers given to a file are sectors, none of them twice. *)
Once(j) ==
  /\ \A k \in 0 .. j.count - 1 : j.at[k] \in 0 .. DATA_BITS - 1
  /\ \A k, l \in 0 .. j.count - 1 : j.at[k] = j.at[l] => k = l

InUse == UNION {Given(j) : j \in made}

(* The files that are stored: the lowest numbers, and no sector twice. *)
Stored ==
  /\ {j.num : j \in made} = 0 .. Cardinality(made) - 1
  /\ \A i, j \in made : i # j => i.num # j.num /\ Given(i) \cap Given(j) = {}
  /\ \A j \in made : Once(j)

(* The first count sectors of a file are on the disk. *)
Written(j) == \A k \in 0 .. j.count - 1 : sector[IBLOCK + j.at[k]] = Filled(Data(j.file, k))

(* The file that is being stored. *)
Storing ==
  /\ inode_bmap = 0 .. Cardinality(made) /\ job.num = Cardinality(made)
  /\ job.bmap = InUse \cup Given(job)
  /\ Given(job) \cap InUse = {} /\ Once(job)
  /\ job.count <= Sectors[job.file] /\ Written(job)

(* Where the boot, or the file, is. *)
Stage ==
  /\ pc \in {"ibmap", "dbmap", "iblock"} => made = {}
  /\ pc \in {"dbmap", "iblock"} => inode_bmap = {}
  /\ pc = "iblock" => data_bmap = {}
  /\ pc = "idle" => inode_bmap = 0 .. Cardinality(made) - 1 /\ data_bmap = InUse
  /\ pc = "data" => Storing /\ data_bmap = InUse
  /\ pc = "inode" => /\ Storing /\ data_bmap = job.bmap
                     /\ job.count = Sectors[job.file] \/ data_bmap = 0 .. DATA_BITS - 1

StoreInv == Types /\ Stored /\ Stage /\ DamageNeedsExcess
-----------------------------------------------------------------------------
(* Division of an inode number into a sector and a slot. *)
LEMMA Division ==
  ASSUME NEW P \in Nat \ {0}, NEW a \in Nat
  PROVE a = P * (a \div P) + (a % P) /\ a \div P \in Nat /\ a % P \in 0 .. P - 1
OBVIOUS

(* Two inode numbers never share a sector and a slot. *)
LEMMA SlotsApart ==
  ASSUME NEW P \in Nat \ {0}, NEW a \in Nat, NEW b \in Nat, a \div P = b \div P, a % P = b % P
  PROVE a = b
BY Division

(* An inode number within the table lies in one of its sectors. *)
LEMMA InTable ==
  ASSUME NEW P \in Nat \ {0}, NEW a \in Nat, NEW I \in Nat, a < I * P
  PROVE a \div P < I
<1> DEFINE q == a \div P
<1>1. a >= P * q /\ q \in Nat
  BY Division
<1> HIDE DEF q
<1>2. ASSUME q >= I PROVE FALSE
  <2>1. P * q >= P * I
    BY <1>1, <1>2
  <2>2. P * I = I * P
    OBVIOUS
  <2> QED
    BY <1>1, <2>1, <2>2
<1> QED
  BY <1>1, <1>2 DEF q

(* The order of the natural numbers as a set of pairs. *)
LEMMA Descending == IsWellFoundedOn({ss \in Nat \X Nat : ss[1] < ss[2]}, Nat)
<1>1. OpToRel(<, Nat) = {ss \in Nat \X Nat : ss[1] < ss[2]}
  BY Zenon DEF OpToRel
<1> QED
  BY <1>1, NatLessThanWellFounded, Zenon

(* The lowest number of a set, as the loops over the bitmaps find it. *)
LEMMA Lowest ==
  ASSUME NEW S \in SUBSET Nat, S # {}
  PROVE Min(S) \in S /\ \A x \in S : Min(S) <= x
<1> DEFINE R == {ss \in Nat \X Nat : ss[1] < ss[2]}
<1>1. \A x, y \in Nat : <<x, y>> \in R <=> x < y
  OBVIOUS
<1>2. IsWellFoundedOn(R, Nat)
  BY Descending
<1> HIDE DEF R
<1>3. PICK m \in S : \A y \in S : ~(<<y, m>> \in R)
  BY <1>2, WFMin
<1>4. ASSUME NEW y \in S PROVE m <= y
  <2>1. y \in Nat /\ m \in Nat
    OBVIOUS
  <2>2. ~(y < m)
    BY <2>1, <1>3, <1>1
  <2> QED
    BY <2>1, <2>2
<1> QED
  BY <1>4 DEF Min

(* The lowest clear bit behind m bits that are set is bit m. *)
LEMMA NextNumber ==
  ASSUME NEW n \in Nat, NEW m \in Nat, (0 .. n - 1) \ (0 .. m - 1) # {}
  PROVE Min((0 .. n - 1) \ (0 .. m - 1)) = m /\ m < n
<1> DEFINE S == (0 .. n - 1) \ (0 .. m - 1)
<1>1. S \in SUBSET Nat /\ m \in S /\ \A x \in S : x >= m
  OBVIOUS
<1> HIDE DEF S
<1>2. Min(S) \in S /\ \A x \in S : Min(S) <= x
  BY <1>1, Lowest
<1>3. Min(S) \in Nat /\ Min(S) <= m /\ Min(S) >= m
  BY <1>1, <1>2
<1> QED
  BY <1>1, <1>3 DEF S

(* What a slot may hold. *)
LEMMA Contents ==
  /\ Zero \in Content
  /\ \A f \in File, at \in AtMap : Inode(Sectors[f], at) \in Content
  /\ \A f \in File, k \in 0 .. MAX_SECTORS - 1 : Data(f, k) \in Content
  /\ \A x \in Content : x.kind \in {"zero", "inode", "data"}
<1>1. Zero \in Content
  BY DEF Content
<1>2. ASSUME NEW f \in File, NEW at \in AtMap PROVE Inode(Sectors[f], at) \in Content
  BY DEF Content
<1>3. ASSUME NEW f \in File, NEW k \in 0 .. MAX_SECTORS - 1 PROVE Data(f, k) \in Content
  BY DEF Content
<1>4. ASSUME NEW x \in Content PROVE x.kind \in {"zero", "inode", "data"}
  <2>1. CASE x = Zero
    BY <2>1 DEF Zero
  <2>2. CASE \E f \in File, at \in AtMap : x = Inode(Sectors[f], at)
    BY <2>2 DEF Inode
  <2>3. CASE \E f \in File, k \in 0 .. MAX_SECTORS - 1 : x = Data(f, k)
    BY <2>3 DEF Data
  <2> QED
    BY <2>1, <2>2, <2>3 DEF Content
<1> QED
  BY <1>1, <1>2, <1>3, <1>4

(* A file that is being stored is not the absence of one. *)
LEMMA IsJob ==
  ASSUME NEW j \in Job
  PROVE /\ j # NoJob /\ j.file \in File /\ j.num \in 0 .. INODE_BITS - 1 /\ j.at \in AtMap
        /\ j.count \in 0 .. MAX_SECTORS /\ j.bmap \subseteq 0 .. DATA_BITS - 1
        /\ j.num \in Nat /\ j.count \in Nat
BY StoreAssumption DEF Job, NoJob

(* A file reads back exactly when its inode is in its slot, it got all its    *)
(* sectors and they are on the disk. *)
LEMMA ReadsBackIff ==
  ASSUME NEW j \in Job
  PROVE ReadsBack(j) <=> /\ read_inode(j.num) = Inode(Sectors[j.file], j.at)
                         /\ j.count = Sectors[j.file]
                         /\ Written(j)
<1> DEFINE inode == Inode(Sectors[j.file], j.at)
<1>1. inode.sectors = Sectors[j.file] /\ inode.sector = j.at
  BY DEF Inode
<1>2. ASSUME j.count = Sectors[j.file]
      PROVE (read_inode_data(inode) = [k \in 0 .. j.count - 1 |-> Filled(Data(j.file, k))])
              <=> Written(j)
  <2>1. read_inode_data(inode) = [k \in 0 .. j.count - 1 |-> sector[IBLOCK + j.at[k]]]
    BY <1>1, <1>2 DEF read_inode_data
  <2> QED
    BY <2>1 DEF Written
<1> QED
  BY <1>2 DEF ReadsBack

-----------------------------------------------------------------------------
(* A whole sector of one content. *)
LEMMA FilledIs ==
  ASSUME NEW x \in Content
  PROVE Filled(x) \in [Slot -> Content]
BY DEF Filled, Slot

(* With nothing stored, no number is taken and no sector is in use. *)
LEMMA NothingStored ==
  ASSUME NEW M, M = {}
  PROVE /\ Cardinality(M) = 0 /\ IsFiniteSet(M) /\ {j.num : j \in M} = 0 .. Cardinality(M) - 1
        /\ UNION {Given(j) : j \in M} = {}
<1>1. Cardinality(M) = 0 /\ IsFiniteSet(M)
  BY FS_EmptySet
<1> QED
  BY <1>1

LEMMA StoreInit == Init => StoreInv
<1> SUFFICES ASSUME Init PROVE StoreInv
  OBVIOUS
<1>1. made = {} /\ pc = "ibmap" /\ job = NoJob /\ wild = FALSE /\ cuts = 0
  BY DEF Init
<1>2. /\ IsFiniteSet(made) /\ {j.num : j \in made} = 0 .. Cardinality(made) - 1
  BY <1>1, NothingStored
<1>3. sector \in [Sector -> [Slot -> Content]]
  BY FilledIs, Contents DEF Init
<1>4. Types
  <2>1. wild \in BOOLEAN
    BY <1>1, Zenon
  <2>2. pc \notin {"data", "inode"} /\ cuts \in 0 .. CUT_BOUND /\ made \subseteq Job
    BY <1>1, StoreAssumption
  <2> QED
    BY <1>1, <1>2, <1>3, <2>1, <2>2 DEF Init, Types
<1>5. Stored
  BY <1>1, <1>2 DEF Stored
<1>6. Stage
  BY <1>1 DEF Stage
<1>7. DamageNeedsExcess
  BY <1>1 DEF DamageNeedsExcess
<1> QED
  BY <1>4, <1>5, <1>6, <1>7 DEF StoreInv

(* A step of the boot, or the power cut that starts one: nothing is stored. *)
LEMMA BootStep ==
  ASSUME Types, ~wild, wild' = wild, made' = {}, job' = NoJob,
         inode_bmap' \subseteq 0 .. INODE_BITS - 1, data_bmap' \subseteq 0 .. DATA_BITS - 1,
         sector' \in [Sector -> [Slot -> Content]], cuts' \in 0 .. CUT_BOUND,
         pc' \in {"ibmap", "dbmap", "iblock", "idle"},
         pc' \in {"dbmap", "iblock", "idle"} => inode_bmap' = {},
         pc' \in {"iblock", "idle"} => data_bmap' = {}
  PROVE StoreInv'
<1>1. /\ Cardinality(made') = 0 /\ IsFiniteSet(made')
      /\ {j.num : j \in made'} = 0 .. Cardinality(made') - 1
      /\ UNION {Given(j) : j \in made'} = {}
  BY NothingStored
<1>2. Types'
  BY <1>1 DEF Types
<1>3. Stored'
  BY <1>1 DEF Stored
<1>4. InUse' = {}
  BY DEF InUse
<1>5. Stage'
  <2>1. 0 .. Cardinality(made') - 1 = {}
    BY <1>1
  <2>2. pc' \notin {"data", "inode"}
    OBVIOUS
  <2> QED
    BY <1>4, <2>1, <2>2 DEF Stage
<1>6. DamageNeedsExcess'
  BY DEF DamageNeedsExcess, Types
<1> QED
  BY <1>2, <1>3, <1>5, <1>6 DEF StoreInv

LEMMA BootSteps ==
  ASSUME StoreInv, ~wild, init_ibmap \/ init_dbmap \/ init_iblock \/ power_cut
  PROVE StoreInv'
<1>1. Types /\ Stage
  BY DEF StoreInv
<1>2. CASE init_ibmap
  <2>1. made' = {} /\ job' = NoJob
    BY <1>1, <1>2 DEF init_ibmap, Types, Stage
  <2> QED
    BY <1>1, <1>2, <2>1, BootStep DEF init_ibmap, Types
<1>3. CASE init_dbmap
  <2>1. made' = {} /\ job' = NoJob /\ inode_bmap' = {}
    BY <1>1, <1>3 DEF init_dbmap, Types, Stage
  <2> QED
    BY <1>1, <1>3, <2>1, BootStep DEF init_dbmap, Types
<1>4. CASE init_iblock
  <2>1. made' = {} /\ job' = NoJob /\ inode_bmap' = {} /\ data_bmap' = {}
    BY <1>1, <1>4 DEF init_iblock, Types, Stage
  <2>2. Filled(Zero) \in [Slot -> Content]
    BY FilledIs, Contents
  <2>3. sector' \in [Sector -> [Slot -> Content]]
    BY <1>1, <1>4, <2>2 DEF init_iblock, Types
  <2> QED
    BY <1>1, <1>4, <2>1, <2>3, BootStep DEF init_iblock, Types
<1>5. CASE power_cut
  <2>1. cuts' \in 0 .. CUT_BOUND
    BY <1>1, <1>5, StoreAssumption DEF power_cut, Types
  <2> QED
    BY <1>1, <1>5, <2>1, BootStep DEF power_cut, Types, disk
<1> QED
  BY <1>2, <1>3, <1>4, <1>5

(* Nothing changes but the numbers of the inode that is taken. *)
LEMMA AllocStep ==
  ASSUME StoreInv, ~wild, alloc_inode_num
  PROVE StoreInv'
<1>1. Types /\ Stored /\ Stage /\ DamageNeedsExcess
  BY DEF StoreInv
<1> DEFINE m == Cardinality(made)
<1>2. PICK f \in File, at \in [0 .. MAX_SECTORS - 1 -> Garbage] :
        /\ pc = "idle"
        /\ \/ /\ free_inodes = {}
              /\ wild' = TRUE
              /\ UNCHANGED <<inode_bmap, pc, job>>
           \/ /\ free_inodes # {}
              /\ inode_bmap' = inode_bmap \cup {Min(free_inodes)}
              /\ job' = [file |-> f, num |-> Min(free_inodes), at |-> at, count |-> 0,
                         bmap |-> data_bmap]
              /\ pc' = "data"
              /\ UNCHANGED wild
        /\ UNCHANGED <<data_bmap, sector, made, cuts>>
  BY DEF alloc_inode_num
<1>3. /\ job = NoJob /\ inode_bmap = 0 .. m - 1 /\ data_bmap = InUse /\ m \in Nat
  BY <1>1, <1>2, FS_CardinalityType DEF Types, Stage
<1>4. Stored' /\ InUse' = InUse /\ Cardinality(made') = m
  BY <1>1, <1>2 DEF Stored, InUse
<1>5. \A j \in made : ReadsBack(j)' <=> ReadsBack(j)
  BY <1>2 DEF ReadsBack, read_inode, read_inode_data
<1>6. Excess => Excess'
  BY <1>2, <1>3 DEF Excess, Asked
<1>7. free_inodes = (0 .. INODE_BITS - 1) \ (0 .. m - 1)
  BY <1>3 DEF free_inodes
<1>8. CASE free_inodes = {}
  <2>1. wild' = TRUE /\ inode_bmap' = inode_bmap /\ pc' = pc /\ job' = job
    BY <1>2, <1>8
  <2>2. Types' /\ Stage'
    BY <1>1, <1>2, <1>3, <1>4, <2>1 DEF Types, Stage
  <2>3. m > IBLOCK * PER_SECTOR
    BY <1>3, <1>7, <1>8, StoreAssumption
  <2>4. Excess'
    BY <1>4, <2>3 DEF Excess
  <2> QED
    BY <1>4, <2>2, <2>4 DEF StoreInv, DamageNeedsExcess
<1>9. CASE free_inodes # {}
  <2>1. /\ inode_bmap' = inode_bmap \cup {m} /\ pc' = "data" /\ wild' = wild /\ m < INODE_BITS
        /\ job' = [file |-> f, num |-> m, at |-> at, count |-> 0, bmap |-> data_bmap]
    BY <1>2, <1>3, <1>7, <1>9, NextNumber, StoreAssumption
  <2>2. /\ job'.file = f /\ job'.num = m /\ job'.at = at /\ job'.count = 0 
        /\ job'.bmap = data_bmap
    BY <2>1
  <2>3. inode_bmap' = 0 .. m
    BY <1>3, <2>1
  <2>4. job' \in Job
    <3>1. at \in AtMap
      BY DEF AtMap
    <3> QED
      BY <1>1, <1>3, <2>1, <3>1, StoreAssumption DEF Job, Types
  <2>5. Types'
    <3>1. inode_bmap' \subseteq 0 .. INODE_BITS - 1
      BY <1>3, <2>1, <2>3, StoreAssumption
    <3>2. made' = made /\ sector' = sector /\ data_bmap' = data_bmap /\ cuts' = cuts
      BY <1>2
    <3>3. wild' \in BOOLEAN
      BY <1>1, <2>1, Zenon DEF Types
    <3> QED
      BY <1>1, <2>1, <2>4, <3>1, <3>2, <3>3 DEF Types
  <2>6. Given(job)' = {}
    BY <2>2 DEF Given
  <2>7. Storing'
    BY <1>3, <1>4, <2>2, <2>3, <2>6, <1>2, StoreAssumption DEF Storing, Once, Written
  <2>8. Stage'
    BY <1>2, <1>3, <1>4, <2>1, <2>7 DEF Stage
  <2>9. DamageNeedsExcess'
    BY <1>1, <1>2, <1>5, <1>6, <2>1 DEF DamageNeedsExcess
  <2> QED
    BY <1>4, <2>5, <2>8, <2>9 DEF StoreInv
<1> QED
  BY <1>8, <1>9

(* A stored file within the limits lies in the table: its number is below     *)
(* IBLOCK * PER_SECTOR. *)
LEMMA NumberInTable ==
  ASSUME Types, Stored, Cardinality(made) <= IBLOCK * PER_SECTOR, NEW j \in made
  PROVE /\ j.num \div PER_SECTOR \in 0 .. IBLOCK - 1
        /\ j.num % PER_SECTOR \in Slot
        /\ j.num < Cardinality(made)
<1>1. j.num \in 0 .. Cardinality(made) - 1 /\ Cardinality(made) \in Nat
  BY FS_CardinalityType DEF Types, Stored
<1>2. j.num \in Nat /\ j.num < IBLOCK * PER_SECTOR
  BY <1>1, StoreAssumption
<1>3. j.num \div PER_SECTOR < IBLOCK
  BY <1>2, InTable, StoreAssumption
<1>4. j.num \div PER_SECTOR \in Nat /\ j.num % PER_SECTOR \in Slot
  BY <1>2, Division, StoreAssumption DEF Slot
<1> QED
  BY <1>1, <1>3, <1>4, StoreAssumption

(* The sectors a file was given, one by one. *)
LEMMA GivenIs ==
  ASSUME NEW j \in Job
  PROVE \A k \in 0 .. j.count - 1 : j.at[k] \in Given(j)
BY DEF Given

(* One more sector: a free one, at the end of the file. *)
LEMMA DataStep ==
  ASSUME StoreInv, ~wild, write_data_sector
  PROVE StoreInv'
<1>1. Types /\ Stored /\ Stage /\ DamageNeedsExcess
  BY DEF StoreInv
<1>2. /\ pc = "data" /\ job.count < Sectors[job.file] /\ free_data # {}
      /\ inode_bmap' = inode_bmap /\ data_bmap' = data_bmap /\ pc' = pc /\ made' = made
      /\ cuts' = cuts
  BY DEF write_data_sector
<1>3. Storing /\ data_bmap = InUse /\ job \in Job
  BY <1>1, <1>2 DEF Stage, Types
<1>4. /\ job # NoJob /\ job.file \in File /\ job.num \in 0 .. INODE_BITS - 1 /\ job.at \in AtMap
      /\ job.count \in 0 .. MAX_SECTORS /\ job.bmap \subseteq 0 .. DATA_BITS - 1
      /\ job.count \in Nat /\ Sectors[job.file] \in Nat
  BY <1>3, IsJob, StoreAssumption
<1>5. Stored' /\ InUse' = InUse /\ Asked' = Asked
  BY <1>1, <1>2 DEF Stored, InUse, Asked
<1> DEFINE new == Min(free_data)
<1>6. CASE job.count >= MAX_SECTORS
  <2>1. wild' = TRUE /\ sector' = sector /\ job' = job
    BY <1>4, <1>6, StoreAssumption DEF write_data_sector
  <2>2. Sectors[job'.file] > MAX_SECTORS /\ job' # NoJob
    BY <1>2, <1>4, <1>6, <2>1, StoreAssumption
  <2>3. Excess'
    BY <2>2 DEF Excess
  <2>4. wild' \in BOOLEAN
    BY <2>1, Zenon
  <2>5. Types'
    BY <1>1, <1>2, <2>1, <2>4 DEF Types
  <2>6. Storing' 
    BY <1>2, <1>3, <1>5, <2>1 DEF Storing, Written, Given, Once
  <2>7. Stage'
    BY <1>2, <1>3, <1>5, <2>1, <2>6 DEF Stage
  <2> QED
    BY <1>5, <2>3, <2>5, <2>7 DEF StoreInv, DamageNeedsExcess
<1>7. CASE job.count < MAX_SECTORS
  <2>1. /\ job' = [job EXCEPT !.at[job.count] = new, !.count = @ + 1, !.bmap = @ \cup {new}]
        /\ sector' = [sector EXCEPT ![IBLOCK + new] = Filled(Data(job.file, job.count))]
        /\ wild' = wild
    BY <1>4, <1>7, StoreAssumption DEF write_data_sector
  <2>2. /\ new \in 0 .. DATA_BITS - 1 /\ new \notin job.bmap
    <3>1. free_data \in SUBSET Nat
      BY DEF free_data
    <3>2. new \in free_data
      BY <1>2, <3>1, Lowest
    <3> QED
      BY <3>2 DEF free_data
  <2> HIDE DEF new
  <2>3. /\ job'.file = job.file /\ job'.num = job.num /\ job'.count = job.count + 1
        /\ job'.bmap = job.bmap \cup {new}
        /\ job'.at = [job.at EXCEPT ![job.count] = new]
    BY <1>3, <2>1 DEF Job
  <2>4. job'.at \in AtMap /\ job'.at[job.count] = new
        /\ \A k \in 0 .. job.count - 1 : job'.at[k] = job.at[k]
    <3>1. job.count \in 0 .. MAX_SECTORS - 1 /\ 0 .. job.count - 1 \subseteq 0 .. MAX_SECTORS - 1
      BY <1>4, <1>7, StoreAssumption
    <3>2. \A k \in 0 .. job.count - 1 : k # job.count
      BY <1>4
    <3> QED
      BY <1>4, <2>2, <2>3, <3>1, <3>2 DEF AtMap
  <2>5. job' \in Job
    <3>1. job' = [file |-> job.file, num |-> job.num, at |-> job'.at, count |-> job.count + 1,
                  bmap |-> job.bmap \cup {new}]
      BY <1>3, <2>1, <2>3 DEF Job
    <3>2. job.count + 1 \in 0 .. MAX_SECTORS /\ job.bmap \cup {new} \subseteq 0 .. DATA_BITS - 1
      BY <1>4, <1>7, <2>2, StoreAssumption
    <3> QED
      BY <1>4, <2>4, <3>1, <3>2 DEF Job
  <2>6. 0 .. job'.count - 1 = (0 .. job.count - 1) \cup {job.count}
    BY <1>4, <2>3
  <2>7. Given(job)' = Given(job) \cup {new}
    BY <2>4, <2>6 DEF Given
  <2>8. Given(job) \subseteq job.bmap /\ InUse \subseteq job.bmap
    BY <1>3 DEF Storing
  <2>9. Once(job)'
    <3>1. \A k \in 0 .. job.count - 1 : job.at[k] \in 0 .. DATA_BITS - 1 /\ job.at[k] # new
      BY <1>3, <2>2, <2>8, GivenIs DEF Storing, Once
    <3>2. \A k, l \in 0 .. job.count - 1 : job.at[k] = job.at[l] => k = l
      BY <1>3 DEF Storing, Once
    <3>3. \A k \in 0 .. job'.count - 1 : job'.at[k] \in 0 .. DATA_BITS - 1
      BY <2>2, <2>4, <2>6, <3>1
    <3>4. ASSUME NEW k \in 0 .. job'.count - 1, NEW l \in 0 .. job'.count - 1,
                 job'.at[k] = job'.at[l]
          PROVE k = l
      <4>1. CASE k = job.count
        BY <4>1, <2>4, <2>6, <3>1, <3>4
      <4>2. CASE l = job.count
        BY <4>2, <2>4, <2>6, <3>1, <3>4
      <4>3. CASE k \in 0 .. job.count - 1 /\ l \in 0 .. job.count - 1
        BY <4>3, <2>4, <3>2, <3>4
      <4> QED
        BY <4>1, <4>2, <4>3, <2>6
    <3> QED
      BY <3>3, <3>4 DEF Once
  <2>10. /\ sector \in [Sector -> [Slot -> Content]] /\ IBLOCK + new \in Sector
         /\ Filled(Data(job.file, job.count)) \in [Slot -> Content]
    <3>1. Data(job.file, job.count) \in Content
      <4>1. job.count \in 0 .. MAX_SECTORS - 1
        BY <1>4, <1>7, StoreAssumption
      <4> QED
        BY <1>4, <4>1, Contents
    <3> QED
      BY <1>1, <2>2, <3>1, FilledIs, StoreAssumption DEF Types, Sector
  <2>11. /\ sector' \in [Sector -> [Slot -> Content]]
         /\ sector'[IBLOCK + new] = Filled(Data(job.file, job.count))
         /\ \A s \in Sector : s # IBLOCK + new => sector'[s] = sector[s]
    BY <2>1, <2>10
  <2>12. \A d \in 0 .. DATA_BITS - 1 : d # new => sector'[IBLOCK + d] = sector[IBLOCK + d]
    <3> TAKE d \in 0 .. DATA_BITS - 1
    <3> HAVE d # new
    <3>1. IBLOCK + d \in Sector /\ IBLOCK + d # IBLOCK + new
      BY <2>2, StoreAssumption DEF Sector
    <3> QED
      BY <2>11, <3>1
  <2>13. Written(job)'
    <3>1. \A k \in 0 .. job.count - 1 : job.at[k] \in 0 .. DATA_BITS - 1 /\ job.at[k] # new
      BY <1>3, <2>2, <2>8, GivenIs DEF Storing, Once
    <3>2. \A k \in 0 .. job.count - 1 : sector[IBLOCK + job.at[k]] = Filled(Data(job.file, k))
      BY <1>3 DEF Storing, Written
    <3>3. ASSUME NEW k \in 0 .. job'.count - 1
          PROVE sector'[IBLOCK + job'.at[k]] = Filled(Data(job'.file, k))
      <4>1. CASE k = job.count
        BY <4>1, <2>3, <2>4, <2>11
      <4>2. CASE k \in 0 .. job.count - 1
        BY <4>2, <2>3, <2>4, <2>12, <3>1, <3>2
      <4> QED
        BY <4>1, <4>2, <2>6
    <3> QED
      BY <3>3 DEF Written
  <2>14. Types'
    BY <1>1, <1>2, <2>1, <2>5, <2>11 DEF Types
  <2>15. Storing'
    <3>1. inode_bmap' = 0 .. Cardinality(made') /\ job'.num = Cardinality(made')
      BY <1>2, <1>3, <2>3 DEF Storing
    <3>2. job'.bmap = InUse' \cup Given(job)' /\ Given(job)' \cap InUse' = {}
      BY <1>3, <1>5, <2>2, <2>3, <2>7, <2>8 DEF Storing
    <3>3. job'.count <= Sectors[job'.file]
      BY <1>2, <1>4, <2>3
    <3> QED
      BY <2>9, <2>13, <3>1, <3>2, <3>3 DEF Storing
  <2>16. Stage'
    BY <1>2, <1>3, <1>5, <2>15 DEF Stage
  <2>17. DamageNeedsExcess'
    <3> SUFFICES ASSUME ~Excess' PROVE \A j \in made : ReadsBack(j)'
      BY <1>2, <2>1 DEF DamageNeedsExcess
    <3>1. ~Excess /\ Cardinality(made) <= IBLOCK * PER_SECTOR
      <4>1. job' # NoJob
        BY <2>5, IsJob
      <4>2. ~Excess
        BY <1>2, <1>4, <1>5, <2>3, <4>1 DEF Excess
      <4>3. Cardinality(made) \in Nat
        BY <1>1, FS_CardinalityType DEF Types
      <4> QED
        BY <4>2, <4>3, StoreAssumption DEF Excess
    <3> TAKE j \in made
    <3>2. ReadsBack(j) /\ j \in Job
      BY <1>1, <3>1 DEF DamageNeedsExcess, Types
    <3>3. /\ read_inode(j.num) = Inode(Sectors[j.file], j.at) /\ j.count = Sectors[j.file]
          /\ Written(j)
      BY <3>2, ReadsBackIff
    <3>4. j.num \div PER_SECTOR \in Sector /\ j.num \div PER_SECTOR # IBLOCK + new
      BY <1>1, <3>1, <2>2, NumberInTable, StoreAssumption DEF Sector
    <3>5. read_inode(j.num)' = Inode(Sectors[j.file], j.at)
      BY <2>11, <3>3, <3>4 DEF read_inode
    <3>6. \A k \in 0 .. j.count - 1 : sector'[IBLOCK + j.at[k]] = Filled(Data(j.file, k))
      <4> TAKE k \in 0 .. j.count - 1
      <4>1. j.at[k] \in 0 .. DATA_BITS - 1 /\ j.at[k] \in InUse
        BY <1>1, <3>2, GivenIs DEF Stored, Once, InUse
      <4>2. j.at[k] # new
        BY <4>1, <2>2, <2>8
      <4> QED
        BY <4>1, <4>2, <2>12, <3>3 DEF Written
    <3> QED
      BY <3>3, <3>5, <3>6 DEF ReadsBack, read_inode_data, Inode
  <2> QED
    BY <1>5, <2>14, <2>16, <2>17 DEF StoreInv
<1> QED
  BY <1>4, <1>6, <1>7, StoreAssumption

LEMMA BmapStep ==
  ASSUME StoreInv, ~wild, write_data_bmap
  PROVE StoreInv'
<1>1. Types /\ Stored /\ Stage /\ DamageNeedsExcess
  BY DEF StoreInv
<1>2. /\ pc = "data" /\ data_bmap' = job.bmap /\ pc' = "inode"
      /\ job.count >= Sectors[job.file] \/ free_data = {}
      /\ inode_bmap' = inode_bmap /\ sector' = sector /\ job' = job /\ wild' = wild
      /\ made' = made /\ cuts' = cuts
  BY DEF write_data_bmap
<1>3. Storing /\ job \in Job
  BY <1>1, <1>2 DEF Stage, Types
<1>4. /\ job.file \in File /\ job.bmap \subseteq 0 .. DATA_BITS - 1 /\ job.count \in Nat
      /\ Sectors[job.file] \in Nat
  BY <1>3, IsJob, StoreAssumption
<1>5. Types'
  BY <1>1, <1>2, <1>3, <1>4 DEF Types
<1>6. Stored' /\ Storing'
  <2>1. Stored' /\ InUse' = InUse
    BY <1>1, <1>2 DEF Stored, InUse
  <2>2. Given(job)' = Given(job) /\ (Once(job)' <=> Once(job)) /\ (Written(job)' <=> Written(job))
    BY <1>2 DEF Given, Once, Written
  <2> QED
    BY <1>2, <1>3, <2>1, <2>2 DEF Storing
<1>7. job.count = Sectors[job.file] \/ job.bmap = 0 .. DATA_BITS - 1
  BY <1>2, <1>3, <1>4 DEF Storing, free_data
<1>8. Stage'
  BY <1>2, <1>6, <1>7 DEF Stage
<1>9. DamageNeedsExcess'
  BY <1>1, <1>2 DEF DamageNeedsExcess, Excess, Asked, ReadsBack, read_inode, read_inode_data
<1> QED
  BY <1>5, <1>6, <1>8, <1>9 DEF StoreInv

(* The sectors that files of a set ask for. *)
Wants(M) == UNION {{j} \X (0 .. Sectors[j.file] - 1) : j \in M}

LEMMA WantsFinite ==
  ASSUME NEW M \in SUBSET Job, IsFiniteSet(M)
  PROVE IsFiniteSet(Wants(M))
<1> DEFINE part == [j \in M |-> {j} \X (0 .. Sectors[j.file] - 1)]
           parts == {part[j] : j \in M}
<1>1. ASSUME NEW j \in M PROVE IsFiniteSet(part[j])
  <2>1. Sectors[j.file] - 1 \in Int
    BY IsJob, StoreAssumption
  <2>2. IsFiniteSet({j}) /\ IsFiniteSet(0 .. Sectors[j.file] - 1)
    <3>1. IsFiniteSet({j})
      BY FS_Singleton
    <3>2. IsFiniteSet(0 .. Sectors[j.file] - 1)
      BY <2>1, FS_Interval
    <3> QED
      BY <3>1, <3>2
  <2>3. IsFiniteSet({j} \X (0 .. Sectors[j.file] - 1))
    BY <2>2, FS_Product
  <2> QED
    BY <2>3
<1>2. part \in Surjection(M, parts)
  BY DEF Surjection
<1>3. IsFiniteSet(parts)
  BY <1>2, FS_Surjection
<1>4. \A T \in parts : IsFiniteSet(T)
  BY <1>1
<1>5. Wants(M) = UNION parts
  BY DEF Wants
<1> HIDE DEF parts
<1> QED
  BY <1>3, <1>4, <1>5, FS_UNION

(* When the files have taken every data sector and one of them still needs    *)
(* one, they ask for more than there are. *)
LEMMA TooMuchData ==
  ASSUME NEW M \in SUBSET Job, IsFiniteSet(M), NEW short \in M,
         \A j \in M : j.count <= Sectors[j.file], short.count # Sectors[short.file],
         0 .. DATA_BITS - 1 = UNION {Given(j) : j \in M}
  PROVE Cardinality(Wants(M)) > DATA_BITS
<1> DEFINE A == Wants(M)
           P == {p \in A : p[2] < p[1].count}
           f == [p \in P |-> p[1].at[p[2]]]
<1>1. \A j \in M : j.count \in Nat /\ Sectors[j.file] \in Nat /\ j.count <= Sectors[j.file]
  BY IsJob, StoreAssumption
<1>2. \A p \in A : p[1] \in M /\ p[2] \in 0 .. Sectors[p[1].file] - 1
  BY DEF Wants
<1>3. \A j \in M : \A k \in 0 .. j.count - 1 : <<j, k>> \in P
  <2> TAKE j \in M
  <2> TAKE k \in 0 .. j.count - 1
  <2>1. k \in 0 .. Sectors[j.file] - 1 /\ k < j.count
    BY <1>1
  <2>2. <<j, k>> \in A
    BY <2>1 DEF Wants
  <2> QED
    BY <2>1, <2>2
<1>4. ASSUME NEW p \in P PROVE f[p] \in 0 .. DATA_BITS - 1
  <2>1. p[1] \in M /\ p[2] \in 0 .. p[1].count - 1
    BY <1>1, <1>2
  <2>2. p[1].at[p[2]] \in Given(p[1])
    BY <2>1 DEF Given
  <2> QED
    BY <2>1, <2>2
<1>5. ASSUME NEW d \in 0 .. DATA_BITS - 1 PROVE \E p \in P : f[p] = d
  <2>1. PICK j \in M : d \in Given(j)
    OBVIOUS
  <2>2. PICK k \in 0 .. j.count - 1 : d = j.at[k]
    BY <2>1 DEF Given
  <2>3. <<j, k>> \in P
    BY <1>3
  <2>4. f[<<j, k>>] = d
    BY <2>2, <2>3
  <2> QED
    BY <2>3, <2>4
<1>6. f \in Surjection(P, 0 .. DATA_BITS - 1)
  BY <1>4, <1>5 DEF Surjection
<1>7. IsFiniteSet(A) /\ P \in SUBSET A
  BY WantsFinite
<1>8. <<short, short.count>> \in A /\ <<short, short.count>> \notin P
  <2>1. short.count \in 0 .. Sectors[short.file] - 1
    BY <1>1
  <2>2. <<short, short.count>> \in A
    BY <2>1 DEF Wants
  <2>3. ~(short.count < short.count)
    BY <1>1
  <2> QED
    BY <2>2, <2>3
<1> HIDE DEF A, P, f
<1>9. IsFiniteSet(P) /\ Cardinality(P) <= Cardinality(A) /\ Cardinality(P) # Cardinality(A)
  BY <1>7, <1>8, FS_Subset
<1>10. Cardinality(0 .. DATA_BITS - 1) <= Cardinality(P)
  BY <1>6, <1>9, FS_Surjection
<1>11. Cardinality(0 .. DATA_BITS - 1) = DATA_BITS
  <2>1. DATA_BITS - 1 \in Int /\ ~(0 > DATA_BITS - 1) /\ DATA_BITS - 1 - 0 + 1 = DATA_BITS
    BY StoreAssumption
  <2> QED
    BY <2>1, FS_Interval
<1>12. Cardinality(A) \in Nat /\ Cardinality(P) \in Nat
  BY <1>7, <1>9, FS_CardinalityType
<1> QED
  BY <1>9, <1>10, <1>11, <1>12, StoreAssumption DEF A

(* The inode goes to its slot, beside those of the other files. *)
LEMMA InodeStep ==
  ASSUME StoreInv, ~wild, write_inode
  PROVE StoreInv'
<1>1. Types /\ Stored /\ Stage /\ DamageNeedsExcess
  BY DEF StoreInv
<1> DEFINE m == Cardinality(made)
           s0 == job.num \div PER_SECTOR
           i0 == job.num % PER_SECTOR
           new == Inode(Sectors[job.file], job.at)
<1>2. /\ pc = "inode" /\ made' = made \cup {job} /\ job' = NoJob /\ pc' = "idle"
      /\ inode_bmap' = inode_bmap /\ data_bmap' = data_bmap /\ wild' = wild /\ cuts' = cuts
      /\ sector' = [sector EXCEPT ![s0][i0] = new]
  BY DEF write_inode
<1>3. /\ Storing /\ job \in Job /\ data_bmap = job.bmap
      /\ job.count = Sectors[job.file] \/ data_bmap = 0 .. DATA_BITS - 1
  BY <1>1, <1>2 DEF Stage, Types
<1>4. /\ job # NoJob /\ job.file \in File /\ job.num \in Nat /\ job.at \in AtMap
      /\ job.count \in Nat /\ Sectors[job.file] \in Nat
  BY <1>3, IsJob, StoreAssumption
<1>5. m \in Nat /\ IsFiniteSet(made) /\ job.num = m /\ {j.num : j \in made} = 0 .. m - 1
  BY <1>1, <1>3, FS_CardinalityType DEF Types, Storing, Stored
<1>6. \A j \in made : j.num \in 0 .. m - 1 /\ j.num # job.num /\ j # job
  BY <1>5
<1>7. IsFiniteSet(made') /\ Cardinality(made') = m + 1
  BY <1>2, <1>5, <1>6, FS_AddElement
<1>8. InUse' = InUse \cup Given(job)
  BY <1>2 DEF InUse, Given
<1>9. Stored'
  <2>1. {j.num : j \in made'} = 0 .. Cardinality(made') - 1
    <3>1. {j.num : j \in made'} = {j.num : j \in made} \cup {job.num}
      BY <1>2
    <3>2. 0 .. m = (0 .. m - 1) \cup {m} /\ Cardinality(made') - 1 = m
      BY <1>5, <1>7
    <3> HIDE DEF m
    <3> QED
      BY <1>5, <3>1, <3>2
  <2>2. \A j \in made : Given(j) \cap Given(job) = {}
    BY <1>3 DEF Storing, InUse
  <2>3. \A i, j \in made : i # j => i.num # j.num /\ Given(i) \cap Given(j) = {}
    BY <1>1 DEF Stored
  <2>4. ASSUME NEW i \in made', NEW j \in made', i # j
        PROVE i.num # j.num /\ Given(i) \cap Given(j) = {}
    <3>1. CASE i = job
      BY <3>1, <2>4, <1>2, <1>6, <2>2
    <3>2. CASE j = job
      BY <3>2, <2>4, <1>2, <1>6, <2>2
    <3>3. CASE i \in made /\ j \in made
      BY <3>3, <2>3, <2>4
    <3> QED
      BY <3>1, <3>2, <3>3, <1>2
  <2>5. \A j \in made' : Once(j)
    BY <1>1, <1>2, <1>3 DEF Stored, Storing
  <2> QED
    BY <2>1, <2>4, <2>5 DEF Stored, Given, Once
<1>10. sector \in [Sector -> [Slot -> Content]] /\ new \in Content
  BY <1>1, <1>4, Contents DEF Types
<1>11. sector' \in [Sector -> [Slot -> Content]]
  <2>1. CASE s0 \in Sector
    BY <1>2, <1>10, <2>1
  <2>2. CASE s0 \notin Sector
    BY <1>2, <1>10, <2>2
  <2> QED
    BY <2>1, <2>2
<1>12. Types'
  <2>1. made' \subseteq Job /\ pc' \notin {"data", "inode"}
    BY <1>1, <1>2, <1>3 DEF Types
  <2> QED
    BY <1>1, <1>2, <1>7, <1>11, <2>1 DEF Types
<1>13. Stage'
  <2>1. inode_bmap' = 0 .. Cardinality(made') - 1
    <3>1. Cardinality(made') - 1 = m
      BY <1>5, <1>7
    <3> QED
      BY <1>2, <1>3, <3>1 DEF Storing
  <2>2. data_bmap' = InUse'
    BY <1>2, <1>3, <1>8 DEF Storing
  <2> QED
    BY <1>2, <2>1, <2>2 DEF Stage
<1>14. DamageNeedsExcess'
  <2> SUFFICES ASSUME ~Excess' PROVE \A j \in made' : ReadsBack(j)'
    BY <1>2 DEF DamageNeedsExcess
  <2>1. m + 1 <= IBLOCK * PER_SECTOR /\ ~(Cardinality(Wants(made')) > DATA_BITS)
    BY <1>5, <1>7, StoreAssumption DEF Excess, Wants, Asked
  <2>2. ~Excess
    <3>1. ~\E j \in made \cup {job} : j # NoJob /\ Sectors[j.file] > MAX_SECTORS
      BY <1>2 DEF Excess
    <3>2. ~(m > IBLOCK * PER_SECTOR)
      BY <1>5, <2>1, StoreAssumption
    <3>3. ~(Cardinality(Wants(made)) > DATA_BITS)
      <4>1. Wants(made) \in SUBSET Wants(made') /\ made' \in SUBSET Job
        BY <1>1, <1>2, <1>3 DEF Wants, Types
      <4>2. IsFiniteSet(Wants(made'))
        BY <1>7, <4>1, WantsFinite
      <4>3. Cardinality(Wants(made)) <= Cardinality(Wants(made')) /\ IsFiniteSet(Wants(made))
        BY <4>1, <4>2, FS_Subset
      <4> QED
        BY <2>1, <4>2, <4>3, FS_CardinalityType, StoreAssumption
    <3> QED
      BY <3>1, <3>2, <3>3 DEF Excess, Wants, Asked
  <2>3. \A j \in made : ReadsBack(j) /\ j \in Job
    BY <1>1, <2>2 DEF DamageNeedsExcess, Types
  <2>4. job.count = Sectors[job.file]
    <3> SUFFICES ASSUME job.count # Sectors[job.file] PROVE FALSE
      OBVIOUS
    <3>1. \A j \in made' : j.count <= Sectors[j.file]
      <4>1. \A j \in made : j.count = Sectors[j.file] /\ j.count \in Nat
        BY <2>3, ReadsBackIff, IsJob
      <4> QED
        BY <1>2, <1>3, <4>1 DEF Storing
    <3>2. 0 .. DATA_BITS - 1 = UNION {Given(j) : j \in made'}
      <4>1. UNION {Given(j) : j \in made'} = InUse \cup Given(job)
        BY <1>2 DEF InUse
      <4> QED
        BY <1>3, <4>1 DEF Storing
    <3>3. made' \in SUBSET Job /\ job \in made'
      BY <1>1, <1>2, <1>3 DEF Types
    <3> QED
      BY <1>7, <2>1, <3>1, <3>2, <3>3, TooMuchData
  <2>5. s0 \in 0 .. IBLOCK - 1 /\ i0 \in Slot
    <3>1. job.num < IBLOCK * PER_SECTOR
      BY <1>5, <2>1, StoreAssumption
    <3>2. s0 < IBLOCK
      BY <1>4, <3>1, InTable, StoreAssumption
    <3>3. s0 \in Nat /\ i0 \in Slot
      BY <1>4, Division, StoreAssumption DEF Slot
    <3> QED
      BY <3>2, <3>3, StoreAssumption
  <2>6. s0 \in Sector /\ \A d \in 0 .. DATA_BITS - 1 : IBLOCK + d \in Sector /\ IBLOCK + d # s0
    BY <2>5, StoreAssumption DEF Sector
  <2> HIDE DEF s0, i0, new
  <2>7. /\ sector'[s0][i0] = new
        /\ \A s \in Sector : s # s0 => sector'[s] = sector[s]
        /\ \A s \in Sector, i \in Slot : (s # s0 \/ i # i0) => sector'[s][i] = sector[s][i]
    BY <1>2, <1>10, <2>5, <2>6
  <2>8. ASSUME NEW j \in made', Written(j), Once(j)
        PROVE \A k \in 0 .. j.count - 1 : sector'[IBLOCK + j.at[k]] = Filled(Data(j.file, k))
    BY <2>6, <2>7, <2>8 DEF Written, Once
  <2>9. ASSUME NEW j \in made', j.count = Sectors[j.file], Written(j), Once(j),
               sector'[j.num \div PER_SECTOR][j.num % PER_SECTOR] = Inode(Sectors[j.file], j.at)
        PROVE ReadsBack(j)'
    BY <2>8, <2>9 DEF ReadsBack, read_inode, read_inode_data, Inode
  <2>10. ASSUME NEW j \in made PROVE ReadsBack(j)'
    <3>1. /\ read_inode(j.num) = Inode(Sectors[j.file], j.at) /\ j.count = Sectors[j.file]
          /\ Written(j) /\ Once(j) /\ j.num \in Nat
      BY <1>1, <2>3, ReadsBackIff, IsJob DEF Stored
    <3>2. j.num \div PER_SECTOR \in 0 .. IBLOCK - 1 /\ j.num % PER_SECTOR \in Slot
      <4>1. Cardinality(made) <= IBLOCK * PER_SECTOR
        BY <1>5, <2>1, StoreAssumption
      <4> QED
        BY <1>1, <4>1, NumberInTable
    <3>3. j.num \div PER_SECTOR # s0 \/ j.num % PER_SECTOR # i0
      BY <1>4, <1>6, <3>1, SlotsApart, StoreAssumption DEF s0, i0
    <3>4. j.num \div PER_SECTOR \in Sector
      BY <3>2, StoreAssumption DEF Sector
    <3>5. sector'[j.num \div PER_SECTOR][j.num % PER_SECTOR] = Inode(Sectors[j.file], j.at)
      BY <2>7, <3>1, <3>2, <3>3, <3>4 DEF read_inode
    <3> QED
      BY <1>2, <2>9, <3>1, <3>5
  <2>11. ASSUME NEW j \in made', j = job PROVE ReadsBack(j)'
    <3>1. j.count = Sectors[j.file] /\ Written(j) /\ Once(j)
      BY <1>3, <2>4, <2>11 DEF Storing
    <3>2. sector'[j.num \div PER_SECTOR][j.num % PER_SECTOR] = Inode(Sectors[j.file], j.at)
      BY <2>7, <2>11 DEF s0, i0, new
    <3> QED
      BY <2>9, <3>1, <3>2
  <2> QED
    BY <1>2, <2>10, <2>11
<1> QED
  BY <1>9, <1>12, <1>13, <1>14 DEF StoreInv

(* The invariant of the store is kept by every step. *)
LEMMA StoreStep == StoreInv /\ [Next]_vars => StoreInv'
<1> SUFFICES ASSUME StoreInv, [Next]_vars PROVE StoreInv'
  OBVIOUS
<1>1. CASE Next
  <2>1. ~wild
    BY <1>1 DEF Next
  <2>2. CASE init_ibmap \/ init_dbmap \/ init_iblock \/ power_cut
    BY <2>1, <2>2, BootSteps
  <2>3. CASE alloc_inode_num
    BY <2>1, <2>3, AllocStep
  <2>4. CASE write_data_sector
    BY <2>1, <2>4, DataStep
  <2>5. CASE write_data_bmap
    BY <2>1, <2>5, BmapStep
  <2>6. CASE write_inode
    BY <2>1, <2>6, InodeStep
  <2> QED
    BY <1>1, <2>2, <2>3, <2>4, <2>5, <2>6 DEF Next
<1>2. CASE UNCHANGED vars
  <2>1. /\ inode_bmap' = inode_bmap /\ data_bmap' = data_bmap /\ sector' = sector /\ pc' = pc
        /\ job' = job /\ wild' = wild /\ made' = made /\ cuts' = cuts
    BY <1>2 DEF vars, disk
  <2>2. Types' /\ Stored' /\ InUse' = InUse
    BY <2>1 DEF StoreInv, Types, Stored, InUse
  <2>3. Storing' <=> Storing
    <3>1. Given(job)' = Given(job) /\ (Once(job)' <=> Once(job)) /\ (Written(job)' <=> Written(job))
      BY <2>1 DEF Given, Once, Written
    <3> QED
      BY <2>1, <2>2, <3>1 DEF Storing
  <2>4. Stage'
    BY <2>1, <2>2, <2>3 DEF StoreInv, Stage
  <2>5. DamageNeedsExcess'
    BY <2>1 DEF StoreInv, DamageNeedsExcess, Excess, Asked, ReadsBack, read_inode, read_inode_data
  <2> QED
    BY <2>2, <2>4, <2>5 DEF StoreInv
<1> QED
  BY <1>1, <1>2

LEMMA StoreAlways == Spec => []StoreInv
BY StoreInit, StoreStep, PTL DEF Spec

(* The bitmaps, the sectors and the file being stored always have the values  *)
(* fs.c gives them, for any files and any disk. *)
THEOREM StoreTypes == Spec => []TypeOK
<1>1. ASSUME StoreInv PROVE TypeOK
  <2>1. Types
    BY <1>1 DEF StoreInv
  <2>2. \A s \in Sector, i \in 0 .. PER_SECTOR - 1 : sector[s][i].kind \in {"zero", "inode", "data"}
    BY <2>1, Contents DEF Types, Slot
  <2>3. job = NoJob \/ (job.file \in File /\ job.num \in 0 .. INODE_BITS - 1)
    BY <2>1, IsJob DEF Types
  <2> QED
    BY <2>1, <2>2, <2>3 DEF TypeOK, Types
<1> QED
  BY <1>1, StoreAlways, PTL

(* Between two files the bitmaps on disk say exactly which inode numbers and   *)
(* which data sectors the stored files have (alloc_inode_num and               *)
(* write_inode_data), whatever files are stored and whenever the power went. *)
THEOREM BitmapsSayWhatIsUsed == Spec => []BitmapsExact
<1>1. ASSUME StoreInv PROVE BitmapsExact
  BY <1>1 DEF StoreInv, Stored, Stage, InUse, BitmapsExact
<1> QED
  BY <1>1, StoreAlways, PTL

(* Every stored file reads back whole and nothing outside the store is         *)
(* overwritten as long as no file has more sectors than an inode lists, the    *)
(* files are no more than the table's inodes and their sectors no more than    *)
(* the data bitmap's bits: the three limits fs.c does not check are the only   *)
(* ways to lose data, for any values of the limits. *)
THEOREM OnlyExcessDamages == Spec => []DamageNeedsExcess
<1>1. ASSUME StoreInv PROVE DamageNeedsExcess
  BY <1>1 DEF StoreInv
<1> QED
  BY <1>1, StoreAlways, PTL
=============================================================================
