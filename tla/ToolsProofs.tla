----------------------------- MODULE ToolsProofs -----------------------------
(* Theorems about the policy tools and about the migrations of the databases.

   The first part is about the tools, for any files, lists, repositories and command
   lines: policies are well-formed, keep what the base policy says, leave out what is to
   be left out, and have digests of one length.

   The second is about the migrations, for any agents, names and policies. The
   inductive invariant is Inductive: which columns each table has at each revision,
   and where the policies of an agent are kept there. It is proved revision by
   revision; most revisions only touch columns that policies are not kept in
   (Harmless), and the others have a lemma for each direction. *)
EXTENDS PolicyTool, TLAPS

CONSTANTS Agents, Lists, Policies, HasDigests, Null
VARIABLES rev, columns, row, stored, format, given, failed

M == INSTANCE Migrations
-----------------------------------------------------------------------------
(* Maps from names to digests *)

LEMMA MapOfLines ==
  ASSUME NEW lines, NEW n \in Names
  PROVE  MapOf(lines)[n] = {l.digest : l \in {k \in lines : k.path = n}}
BY DEF MapOf

LEMMA MapOfDigests ==
  ASSUME NEW lines, NEW S, \A l \in lines : l.digest \in S
  PROVE  MapOf(lines) \in [Names -> SUBSET S]
<1>1. ASSUME NEW n \in Names
      PROVE  {l.digest : l \in {k \in lines : k.path = n}} \in SUBSET S
  OBVIOUS
<1>2. QED
  BY <1>1 DEF MapOf

LEMMA MergedAt ==
  ASSUME NEW m1, NEW m2, NEW n \in Names
  PROVE  MergeMaplists(m1, m2)[n] = m1[n] \cup m2[n]
BY DEF MergeMaplists

LEMMA MergeDigests ==
  ASSUME NEW S, NEW m1 \in [Names -> SUBSET S], NEW m2 \in [Names -> SUBSET S]
  PROVE  MergeMaplists(m1, m2) \in [Names -> SUBSET S]
BY DEF MergeMaplists

LEMMA NoDigestsAt ==
  ASSUME NEW n \in Names
  PROVE  NoDigests[n] = {}
BY DEF NoDigests, MapOf

LEMMA NoDigestsTyped ==
  ASSUME NEW S
  PROVE  NoDigests \in [Names -> SUBSET S]
BY DEF NoDigests, MapOf
-----------------------------------------------------------------------------
(* Policies are records; Rest and the digests each change a part of them *)

IsPolicy(p) ==
  p = [digests |-> p.digests, excludes |-> p.excludes, keyrings |-> p.keyrings,
       ima_buf |-> p.ima_buf, ignored_keyrings |-> p.ignored_keyrings,
       verification_keys |-> p.verification_keys]

LEMMA EmptyIsPolicy == IsPolicy(EmptyPolicy)
BY DEF IsPolicy, EmptyPolicy

LEMMA BaseIsPolicy ==
  ASSUME PolicyToolAssumption, NEW c \in Commands
  PROVE  IsPolicy(UpdateBasePolicy(c.base))
<1>1. CASE c.base = None
  BY <1>1, EmptyIsPolicy DEF UpdateBasePolicy
<1>2. CASE c.base # None
  <2>1. PICK b : b = c.base
    OBVIOUS
  <2>2. IsPolicy(b)
    BY <1>2, <2>1 DEF PolicyToolAssumption, IsPolicy
  <2>3. UpdateBasePolicy(b) =
          [digests |-> MapOf(Said(b.digests)), excludes |-> b.excludes,
           keyrings |-> MapOf(Said(b.keyrings)), ima_buf |-> MapOf(Said(b.ima_buf)),
           ignored_keyrings |-> b.ignored_keyrings, verification_keys |-> b.verification_keys]
    BY <1>2, <2>1, <2>2 DEF UpdateBasePolicy, IsPolicy
  <2>4. QED
    BY <2>1, <2>3 DEF IsPolicy
<1>3. QED
  BY <1>1, <1>2

\* The parts of a policy that do not come from Combined or LegacyDigests.
AddsRest(p, c, base) ==
  /\ IsPolicy(p)
  /\ p.excludes = Excludes(base, c)
  /\ p.ignored_keyrings = base.ignored_keyrings \cup c.ignored
  /\ p.verification_keys = VerificationKeys(base, c)
  /\ p.keyrings = IF c.get_keyrings
                  THEN MergeMaplists(base.keyrings,
                         MeasuredKeyrings(ListOf(c.ima), base.ignored_keyrings \cup c.ignored))
                  ELSE base.keyrings
  /\ p.ima_buf = IF c.get_ima_buf
                 THEN MergeMaplists(base.ima_buf, MeasuredBufs(ListOf(c.ima)))
                 ELSE base.ima_buf

LEMMA RestIs ==
  ASSUME NEW base, IsPolicy(base), NEW c, NEW r, r = Rest(base, c)
  PROVE  AddsRest(r, c, base) /\ r.digests = base.digests
<1>1. PICK k : k = IF c.get_keyrings
                   THEN MergeMaplists(base.keyrings,
                          MeasuredKeyrings(ListOf(c.ima), base.ignored_keyrings \cup c.ignored))
                   ELSE base.keyrings
  OBVIOUS
<1>2. PICK b : b = IF c.get_ima_buf
                   THEN MergeMaplists(base.ima_buf, MeasuredBufs(ListOf(c.ima)))
                   ELSE base.ima_buf
  OBVIOUS
<1>3. r = [base EXCEPT !.excludes = Excludes(base, c),
                       !.ignored_keyrings = base.ignored_keyrings \cup c.ignored,
                       !.keyrings = k, !.ima_buf = b,
                       !.verification_keys = VerificationKeys(base, c)]
  BY <1>1, <1>2 DEF Rest
<1>4. r = [digests |-> base.digests, excludes |-> Excludes(base, c), keyrings |-> k, ima_buf |-> b,
           ignored_keyrings |-> base.ignored_keyrings \cup c.ignored,
           verification_keys |-> VerificationKeys(base, c)]
  BY <1>3 DEF IsPolicy
<1>5. IsPolicy(r)
  BY <1>4 DEF IsPolicy
<1>6. QED
  BY <1>1, <1>2, <1>4, <1>5 DEF AddsRest

LEMMA WithDigests ==
  ASSUME NEW p, IsPolicy(p), NEW d, NEW r, r = [p EXCEPT !.digests = d]
  PROVE  /\ IsPolicy(r) /\ r.digests = d /\ r.excludes = p.excludes /\ r.keyrings = p.keyrings
         /\ r.ima_buf = p.ima_buf /\ r.ignored_keyrings = p.ignored_keyrings
         /\ r.verification_keys = p.verification_keys
<1>1. r = [digests |-> d, excludes |-> p.excludes, keyrings |-> p.keyrings, ima_buf |-> p.ima_buf,
           ignored_keyrings |-> p.ignored_keyrings, verification_keys |-> p.verification_keys]
  BY DEF IsPolicy
<1>2. QED
  BY <1>1 DEF IsPolicy
-----------------------------------------------------------------------------
(* What the tools end with *)

Made ==
  /\ args \in Commands
  /\ \/ made = None
     \/ args.tool = "create_runtime" /\ made = CreateRuntimePolicy(args)
     \/ args.tool = "create_policy" /\ made \in LegacyPolicies(args)

LEMMA AlwaysMade == Spec => []Made
<1>1. Init => Made
  BY DEF Init, Made
<1>2. Made /\ [Next]_vars => Made'
  <2> SUFFICES ASSUME Made, [Next]_vars PROVE Made'
    OBVIOUS
  <2>1. CASE Create
    BY <2>1 DEF Create, Made
  <2>2. CASE CreateLegacy
    BY <2>2 DEF CreateLegacy, Made
  <2>3. CASE UNCHANGED vars
    BY <2>3 DEF vars, Made
  <2>4. QED
    BY <2>1, <2>2, <2>3 DEF Next
<1>3. QED
  BY <1>1, <1>2, PTL DEF Spec

AlgoOf(c) == LET a == Reconcile(Sources(c)).algo IN IF a = None THEN "sha256" ELSE a

LEMMA RuntimePolicyIs ==
  ASSUME PolicyToolAssumption, NEW c \in Commands, NEW p, p = CreateRuntimePolicy(c),
         p \notin {Refused, Raised}
  PROVE  /\ AddsRest(p, c, UpdateBasePolicy(c.base))
         /\ p.digests = Combined(c, AlgoOf(c))
         /\ ~Reconcile(Sources(c)).abort
<1>1. PICK base : base = UpdateBasePolicy(c.base)
  OBVIOUS
<1>2. IsPolicy(base)
  BY <1>1, BaseIsPolicy
<1>3. PICK r : r = Rest(base, c)
  OBVIOUS
<1>4. AddsRest(r, c, base)
  BY <1>2, <1>3, RestIs
<1>5. p = [r EXCEPT !.digests = Combined(c, AlgoOf(c))] /\ ~Reconcile(Sources(c)).abort
  BY <1>1, <1>3 DEF CreateRuntimePolicy, AlgoOf
<1>6. IsPolicy(r)
  BY <1>4 DEF AddsRest
<1>7. AddsRest(p, c, base) /\ p.digests = Combined(c, AlgoOf(c))
  BY <1>4, <1>5, <1>6, WithDigests DEF AddsRest
<1>8. QED
  BY <1>1, <1>5, <1>7

LEMMA LegacyPolicyIs ==
  ASSUME PolicyToolAssumption, NEW c \in Commands, NEW p \in LegacyPolicies(c), p # Refused
  PROVE  /\ AddsRest(p, c, UpdateBasePolicy(c.base))
         /\ p.digests \in LegacyDigests(c, UpdateBasePolicy(c.base).digests)
<1>1. PICK base : base = UpdateBasePolicy(c.base)
  OBVIOUS
<1>2. IsPolicy(base)
  BY <1>1, BaseIsPolicy
<1>3. PICK r : r = Rest(base, c)
  OBVIOUS
<1>4. AddsRest(r, c, base) /\ IsPolicy(r)
  <2>1. AddsRest(r, c, base)
    BY <1>2, <1>3, RestIs
  <2>2. QED
    BY <2>1 DEF AddsRest
<1>5. PICK d \in LegacyDigests(c, base.digests) : p = [r EXCEPT !.digests = d]
  BY <1>1, <1>3 DEF LegacyPolicies
<1>6. AddsRest(p, c, base) /\ p.digests = d
  BY <1>4, <1>5, WithDigests DEF AddsRest
<1>7. QED
  BY <1>1, <1>5, <1>6

LEMMA CombinedAt ==
  ASSUME NEW c, NEW algo, NEW n \in Names
  PROVE  Combined(c, algo)[n] =
           UNION {UpdateBasePolicy(c.base).digests[n],
                  MapOf(Said(ListOf(c.allowlist)))[n], MeasuredDigests(ListOf(c.ima))[n],
                  IF c.rootfs = None THEN {} ELSE RootfsDigests(c.rootfs, c.skip, algo)[n],
                  RepoDigests(c.repo)[n]}
<1>1. PICK r : r = IF c.rootfs = None THEN NoDigests ELSE RootfsDigests(c.rootfs, c.skip, algo)
  OBVIOUS
<1>2. PICK l : l = MergeMaplists(MapOf(Said(ListOf(c.allowlist))), MeasuredDigests(ListOf(c.ima)))
  OBVIOUS
<1>3. PICK f : f = MergeMaplists(r, RepoDigests(c.repo))
  OBVIOUS
<1>4. PICK b : b = MergeMaplists(UpdateBasePolicy(c.base).digests, l)
  OBVIOUS
<1>5. Combined(c, algo) = MergeMaplists(b, f)
  BY <1>1, <1>2, <1>3, <1>4 DEF Combined
<1>6. MergeMaplists(b, f)[n] = b[n] \cup f[n]
  BY MergedAt
<1>7. b[n] = UpdateBasePolicy(c.base).digests[n] \cup l[n] /\ f[n] = r[n] \cup RepoDigests(c.repo)[n]
  BY <1>3, <1>4, MergedAt
<1>8. l[n] = MapOf(Said(ListOf(c.allowlist)))[n] \cup MeasuredDigests(ListOf(c.ima))[n]
  BY <1>2, MergedAt
<1>9. r[n] = IF c.rootfs = None THEN {} ELSE RootfsDigests(c.rootfs, c.skip, algo)[n]
  BY <1>1, NoDigestsAt
<1>10. QED
  BY <1>5, <1>6, <1>7, <1>8, <1>9
-----------------------------------------------------------------------------
(* The base policy *)

LEMMA MergeKeeps ==
  ASSUME NEW m1, NEW m2, NEW n \in Names
  PROVE  m1[n] \subseteq MergeMaplists(m1, m2)[n]
BY MergedAt

LEMMA RestKeepsBase ==
  ASSUME NEW p, NEW c, NEW base, AddsRest(p, c, base)
  PROVE  /\ \A n \in Names : base.keyrings[n] \subseteq p.keyrings[n] /\ base.ima_buf[n] \subseteq p.ima_buf[n]
         /\ base.excludes \subseteq p.excludes
         /\ base.ignored_keyrings \subseteq p.ignored_keyrings
         /\ base.verification_keys \subseteq p.verification_keys
<1>1. \A n \in Names : base.keyrings[n] \subseteq p.keyrings[n]
  BY MergeKeeps DEF AddsRest
<1>2. \A n \in Names : base.ima_buf[n] \subseteq p.ima_buf[n]
  BY MergeKeeps DEF AddsRest
<1>3. QED
  BY <1>1, <1>2 DEF AddsRest, Excludes, VerificationKeys

\* Whatever the lists, files and packages say, what the base policy allows or ignores
\* still is.
THEOREM BasePoliciesSurvive == PolicyToolAssumption => (Spec => []BaseSurvives)
<1> SUFFICES ASSUME PolicyToolAssumption PROVE Spec => []BaseSurvives
  OBVIOUS
<1>1. Made => BaseSurvives
  <2> SUFFICES ASSUME Made, Policy, args.base # None, args.tool = "create_policy" => args.repo = None
               PROVE  LET base == UpdateBasePolicy(args.base)
                      IN  /\ \A n \in Names : /\ base.digests[n] \subseteq made.digests[n]
                                              /\ base.keyrings[n] \subseteq made.keyrings[n]
                                              /\ base.ima_buf[n] \subseteq made.ima_buf[n]
                          /\ base.excludes \subseteq made.excludes
                          /\ base.ignored_keyrings \subseteq made.ignored_keyrings
                          /\ base.verification_keys \subseteq made.verification_keys
    BY DEF BaseSurvives
  <2>1. PICK base : base = UpdateBasePolicy(args.base)
    OBVIOUS
  <2>2. args \in Commands /\ made \notin {None, Refused, Raised}
    BY DEF Made, Policy
  <2>3. AddsRest(made, args, base) /\ \A n \in Names : base.digests[n] \subseteq made.digests[n]
    <3>1. CASE args.tool = "create_runtime" /\ made = CreateRuntimePolicy(args)
      <4>1. AddsRest(made, args, base) /\ made.digests = Combined(args, AlgoOf(args))
        BY <2>1, <2>2, <3>1, RuntimePolicyIs
      <4>2. \A n \in Names : base.digests[n] \subseteq Combined(args, AlgoOf(args))[n]
        BY <2>1, CombinedAt
      <4>3. QED
        BY <4>1, <4>2
    <3>2. CASE args.tool = "create_policy" /\ made \in LegacyPolicies(args)
      <4>1. AddsRest(made, args, base) /\ made.digests \in LegacyDigests(args, base.digests)
        BY <2>1, <2>2, <3>2, LegacyPolicyIs
      <4>2. PICK m : made.digests = MergeMaplists(base.digests, m)
        BY <3>2, <4>1 DEF LegacyDigests
      <4>3. QED
        BY <4>1, <4>2, MergeKeeps
    <3>3. QED
      BY <2>2, <3>1, <3>2 DEF Made
  <2>4. QED
    BY <2>1, <2>3, RestKeepsBase
<1>2. QED
  BY <1>1, AlwaysMade, PTL
-----------------------------------------------------------------------------
(* What is to be left out *)

LEMMA PathsAreSequences ==
  ASSUME PolicyToolAssumption
  PROVE  /\ \A n \in Names : n \in Seq(Steps)
         /\ \A f \in Files : f.path \in Seq(Steps)
         /\ \A c \in Commands : \A d \in c.skip : d \in Seq(Steps)
         /\ \A c \in Commands : c.rootfs # None => c.rootfs \in Seq(Steps)
<1>1. Paths \subseteq Seq(Steps)
  BY DEF PolicyToolAssumption
<1>2. \A n \in Names : n \in Paths
  BY DEF Paths
<1>3. \A f \in Files : f.path \in Paths
  BY DEF Paths
<1>4. \A c \in Commands : \A d \in c.skip : d \in Paths
  BY DEF Paths
<1>5. \A c \in Commands : c.rootfs # None => c.rootfs \in Paths
  BY DEF Paths
<1>6. QED
  BY <1>1, <1>2, <1>3, <1>4, <1>5

\* A path below a directory below the root begins, from the root on, with what the
\* directory's begins with.
LEMMA BelowBoth ==
  ASSUME NEW S, NEW path \in Seq(S), NEW dir \in Seq(S), NEW root \in Seq(S),
         Under(path, dir), Under(dir, root), path # dir
  PROVE  /\ Len(dir) - Len(root) \in 0..(Len(path) - Len(root) - 1)
         /\ Len(dir) = Len(root) => Under(root, dir)
         /\ SubSeq(RelPath(path, root), 1, Len(dir) - Len(root)) = RelPath(dir, root)
<1>1. Len(dir) \in Nat /\ Len(root) \in Nat /\ Len(path) \in Nat
  OBVIOUS
<1>2. Len(dir) <= Len(path) /\ Len(root) <= Len(dir)
  BY DEF Under
<1>3. dir = SubSeq(path, 1, Len(dir)) /\ root = SubSeq(dir, 1, Len(root))
  BY DEF Under
<1>4. Len(dir) # Len(path)
  <2> SUFFICES ASSUME Len(dir) = Len(path) PROVE FALSE
    OBVIOUS
  <2>1. SubSeq(path, 1, Len(path)) = path
    OBVIOUS
  <2>2. QED
    BY <1>3, <2>1
<1>5. Len(dir) = Len(root) => Under(root, dir)
  <2> SUFFICES ASSUME Len(dir) = Len(root) PROVE Under(root, dir)
    OBVIOUS
  <2>1. SubSeq(dir, 1, Len(dir)) = dir
    OBVIOUS
  <2>2. root = dir
    BY <1>3, <2>1
  <2>3. QED
    BY <2>1, <2>2, <1>1 DEF Under
<1>6. PICK p : p = RelPath(path, root)
  OBVIOUS
<1>7. /\ p \in Seq(S) /\ Len(p) = Len(path) - Len(root)
      /\ \A i \in 1..Len(p) : p[i] = path[i + Len(root)]
  BY <1>1, <1>2, <1>6 DEF RelPath
<1>8. PICK q : q = RelPath(dir, root)
  OBVIOUS
<1>9. /\ q \in Seq(S) /\ Len(q) = Len(dir) - Len(root)
      /\ \A i \in 1..Len(q) : q[i] = dir[i + Len(root)]
  BY <1>1, <1>2, <1>8 DEF RelPath
<1>10. \A i \in 1..Len(dir) : dir[i] = path[i]
  BY <1>1, <1>2, <1>3
<1>11. PICK k : k = Len(dir) - Len(root)
  OBVIOUS
<1>12. k \in Nat /\ k <= Len(p) /\ k = Len(q)
  BY <1>1, <1>2, <1>7, <1>9, <1>11
<1>13. PICK r : r = SubSeq(p, 1, k)
  OBVIOUS
<1>14. r \in Seq(S) /\ Len(r) = k /\ \A i \in 1..k : r[i] = p[i]
  BY <1>7, <1>12, <1>13
<1>15. \A i \in 1..k : r[i] = q[i]
  <2> SUFFICES ASSUME NEW i \in 1..k PROVE r[i] = q[i]
    OBVIOUS
  <2>1. i \in 1..Len(p) /\ i \in 1..Len(q) /\ i + Len(root) \in 1..Len(dir)
    BY <1>1, <1>11, <1>12
  <2>2. QED
    BY <1>7, <1>9, <1>10, <1>14, <2>1
<1>16. r = q
  <2>1. r \in Seq(S) /\ q \in Seq(S) /\ Len(r) = Len(q) /\ \A i \in 1..Len(r) : r[i] = q[i]
    BY <1>9, <1>12, <1>14, <1>15
  <2>2. QED
    BY <2>1
<1>17. QED
  BY <1>1, <1>2, <1>4, <1>5, <1>6, <1>8, <1>11, <1>13, <1>16

\* Files below a skipped directory are not scanned.
LEMMA SkippedAreNotScanned ==
  ASSUME PolicyToolAssumption, NEW c \in Commands, c.rootfs \notin {None, <<>>},
         NEW d \in c.skip, NEW f \in Files, Under(f.path, d), Under(d, c.rootfs), f.path # d
  PROVE  f \notin ScannedFiles(c.rootfs, c.skip)
<1>1. PICK root : root = c.rootfs
  OBVIOUS
<1>2. PICK path : path = f.path
  OBVIOUS
<1>3. root \in Seq(Steps) /\ d \in Seq(Steps) /\ path \in Seq(Steps)
  BY <1>1, <1>2, PathsAreSequences
<1>4. PICK k : k = Len(d) - Len(root)
  OBVIOUS
<1>5. /\ k \in 0..(Len(path) - Len(root) - 1)
      /\ k = 0 => Under(root, d)
      /\ SubSeq(RelPath(path, root), 1, k) = RelPath(d, root)
  BY <1>1, <1>2, <1>3, <1>4, BelowBoth
<1>6. CASE \E e \in c.skip : Under(root, e)
  BY <1>1, <1>6 DEF ScannedFiles
<1>7. CASE ~\E e \in c.skip : Under(root, e)
  <2>1. k \in 1..(Len(path) - Len(root) - 1)
    BY <1>5, <1>7, <1>3
  <2>2. PICK dirs : dirs = SkippedDirs(root, c.skip) \cup BaseExcludeDirs
    OBVIOUS
  <2>3. RelPath(d, root) \in dirs
    BY <1>1, <2>2 DEF SkippedDirs
  <2>4. ScannedFiles(root, c.skip) = AllFiles(root, dirs \cup ExcludeDirsBasedOnRootfs(dirs))
    BY <1>7, <2>2 DEF ScannedFiles
  <2>5. f \notin AllFiles(root, dirs \cup ExcludeDirsBasedOnRootfs(dirs))
    BY <1>2, <1>5, <2>1, <2>3 DEF AllFiles
  <2>6. QED
    BY <1>1, <2>4, <2>5
<1>8. QED
  BY <1>6, <1>7

\* The path of a file is its root's and the one its digest is kept for.
LEMMA RootAndName ==
  ASSUME NEW S, NEW path \in Seq(S), NEW root \in Seq(S), Under(path, root)
  PROVE  path = root \o RelPath(path, root)
<1>1. Len(root) <= Len(path) /\ root = SubSeq(path, 1, Len(root))
  BY DEF Under
<1>2. PICK q : q = RelPath(path, root)
  OBVIOUS
<1>3. /\ q \in Seq(S) /\ Len(q) = Len(path) - Len(root)
      /\ \A i \in 1..Len(q) : q[i] = path[i + Len(root)]
  BY <1>1, <1>2 DEF RelPath
<1>4. \A i \in 1..Len(root) : root[i] = path[i]
  BY <1>1
<1>5. PICK r : r = root \o q
  OBVIOUS
<1>6. /\ r \in Seq(S) /\ Len(r) = Len(path)
      /\ \A i \in 1..Len(r) : r[i] = IF i <= Len(root) THEN root[i] ELSE q[i - Len(root)]
  BY <1>3, <1>5
<1>7. \A i \in 1..Len(path) : r[i] = path[i]
  <2> SUFFICES ASSUME NEW i \in 1..Len(path) PROVE r[i] = path[i]
    OBVIOUS
  <2>1. CASE i <= Len(root)
    BY <1>4, <1>6, <2>1
  <2>2. CASE i > Len(root)
    <3>1. i - Len(root) \in 1..Len(q)
      BY <1>3, <2>2
    <3>2. q[i - Len(root)] = path[(i - Len(root)) + Len(root)]
      BY <1>3, <3>1
    <3>3. (i - Len(root)) + Len(root) = i
      OBVIOUS
    <3>4. QED
      BY <1>6, <2>2, <3>2, <3>3
  <2>3. QED
    BY <2>1, <2>2
<1>8. r = path
  BY <1>6, <1>7
<1>9. QED
  BY <1>2, <1>5, <1>8

LEMMA ScannedAreUnderRoot ==
  ASSUME NEW root, NEW skip, NEW f \in ScannedFiles(root, skip)
  PROVE  f \in Files /\ Under(f.path, root)
BY DEF ScannedFiles, AllFiles

LEMMA NothingSaid ==
  ASSUME NEW n \in Names
  PROVE  MapOf(Said(<<>>))[n] = {} /\ MeasuredDigests(<<>>)[n] = {}
<1>1. Said(<<>>) = {}
  BY DEF Said
<1>2. MapOf(Said(<<>>))[n] = {}
  BY <1>1, MapOfLines
<1>3. MeasuredDigests(<<>>) = MapOf({})
  BY <1>1 DEF MeasuredDigests
<1>4. QED
  BY <1>2, <1>3, MapOfLines

\* Only files of the root file system: nothing else has digests.
LEMMA OnlyRootfs ==
  ASSUME NEW c, RootfsOnly(c), NEW algo, NEW n \in Names
  PROVE  Combined(c, algo)[n] = RootfsDigests(c.rootfs, c.skip, algo)[n]
<1>1. /\ c.rootfs # None /\ c.base = None /\ c.allowlist = None /\ c.ima = None /\ c.repo = None
  BY DEF RootfsOnly
<1>2. UpdateBasePolicy(c.base).digests[n] = {}
  <2>1. UpdateBasePolicy(c.base) = EmptyPolicy
    BY <1>1 DEF UpdateBasePolicy
  <2>2. EmptyPolicy.digests = NoDigests
    BY DEF EmptyPolicy
  <2>3. QED
    BY <2>1, <2>2, NoDigestsAt
<1>3. MapOf(Said(ListOf(c.allowlist)))[n] = {} /\ MeasuredDigests(ListOf(c.ima))[n] = {}
  BY <1>1, NothingSaid DEF ListOf
<1>4. RepoDigests(c.repo)[n] = {}
  BY <1>1, NoDigestsAt DEF RepoDigests
<1>5. PICK r : r = RootfsDigests(c.rootfs, c.skip, algo)[n]
  OBVIOUS
<1>6. Combined(c, algo)[n] = UNION {{}, {}, {}, r, {}}
  <2>1. Combined(c, algo)[n] =
          UNION {UpdateBasePolicy(c.base).digests[n],
                 MapOf(Said(ListOf(c.allowlist)))[n], MeasuredDigests(ListOf(c.ima))[n],
                 IF c.rootfs = None THEN {} ELSE r, RepoDigests(c.repo)[n]}
    BY <1>5, CombinedAt
  <2>2. QED
    BY <1>1, <1>2, <1>3, <1>4, <2>1
<1>7. QED
  BY <1>5, <1>6

LEMMA IgnoredKeysStayOut ==
  ASSUME PolicyToolAssumption, NEW c \in Commands, NEW p, NEW base, AddsRest(p, c, base),
         NEW l \in Said(ListOf(c.ima)), l.cert, l.path \in p.ignored_keyrings
  PROVE  /\ l.digest \notin p.ima_buf[l.path] \ base.ima_buf[l.path]
         /\ l.digest \notin p.keyrings[l.path] \ base.keyrings[l.path]
<1>1. PICK list : list = ListOf(c.ima)
  OBVIOUS
<1>2. l.path \in Names /\ \A k \in Said(list) : l.digest = k.digest => l.cert = k.cert
  BY <1>1 DEF PolicyToolAssumption
<1>3. PICK n \in Names : n = l.path
  BY <1>2
<1>4. PICK ignored : ignored = base.ignored_keyrings \cup c.ignored
  OBVIOUS
<1>5. n \in ignored
  BY <1>3, <1>4 DEF AddsRest
<1>6. l.digest \notin MeasuredBufs(list)[n]
  <2>1. MeasuredBufs(list)[n] =
          {k.digest : k \in {x \in {y \in Said(list) : y.template = "ima-buf" /\ ~y.cert} : x.path = n}}
    BY MapOfLines DEF MeasuredBufs
  <2>2. QED
    BY <1>2, <2>1
<1>7. l.digest \notin p.ima_buf[n] \ base.ima_buf[n]
  <2>1. CASE c.get_ima_buf
    <3>1. p.ima_buf = MergeMaplists(base.ima_buf, MeasuredBufs(list))
      BY <1>1, <2>1 DEF AddsRest
    <3>2. p.ima_buf[n] = base.ima_buf[n] \cup MeasuredBufs(list)[n]
      BY <3>1, MergedAt
    <3>3. QED
      BY <1>6, <3>2
  <2>2. CASE ~c.get_ima_buf
    BY <2>2 DEF AddsRest
  <2>3. QED
    BY <2>1, <2>2
<1>8. MeasuredKeyrings(list, ignored)[n] = {}
  <2>1. MeasuredKeyrings(list, ignored)[n] =
          {k.digest : k \in {x \in {y \in Said(list) : y.template = "ima-buf" /\ y.cert /\ y.path \notin ignored}
                                : x.path = n}}
    BY MapOfLines DEF MeasuredKeyrings
  <2>2. QED
    BY <1>5, <2>1
<1>9. l.digest \notin p.keyrings[n] \ base.keyrings[n]
  <2>1. CASE c.get_keyrings
    <3>1. p.keyrings = MergeMaplists(base.keyrings, MeasuredKeyrings(list, ignored))
      BY <1>1, <1>4, <2>1 DEF AddsRest
    <3>2. p.keyrings[n] = base.keyrings[n] \cup MeasuredKeyrings(list, ignored)[n]
      BY <3>1, MergedAt
    <3>3. QED
      BY <1>8, <3>2
  <2>2. CASE ~c.get_keyrings
    BY <2>2 DEF AddsRest
  <2>3. QED
    BY <2>1, <2>2
<1>10. QED
  BY <1>3, <1>7, <1>9

\* Keys of ignored keyrings and files below skipped directories have no digests in
\* the policy.
THEOREM LeftOutIsLeftOut == PolicyToolAssumption => (Spec => []LeftOutStaysOut)
<1> SUFFICES ASSUME PolicyToolAssumption PROVE Spec => []LeftOutStaysOut
  OBVIOUS
<1>1. Made => LeftOutStaysOut
  <2> SUFFICES ASSUME Made, Policy PROVE LeftOutStaysOut
    BY DEF LeftOutStaysOut
  <2>1. PICK base : base = UpdateBasePolicy(args.base)
    OBVIOUS
  <2>2. args \in Commands /\ made \notin {None, Refused, Raised}
    BY DEF Made, Policy
  <2>3. AddsRest(made, args, base)
    <3>1. CASE args.tool = "create_runtime" /\ made = CreateRuntimePolicy(args)
      BY <2>1, <2>2, <3>1, RuntimePolicyIs
    <3>2. CASE args.tool = "create_policy" /\ made \in LegacyPolicies(args)
      BY <2>1, <2>2, <3>2, LegacyPolicyIs
    <3>3. QED
      BY <2>2, <3>1, <3>2 DEF Made
  <2>4. ASSUME NEW l \in Said(ListOf(args.ima)), IgnoredKey(l)
        PROVE  /\ l.digest \notin made.ima_buf[l.path] \ base.ima_buf[l.path]
               /\ l.digest \notin made.keyrings[l.path] \ base.keyrings[l.path]
    BY <2>2, <2>3, <2>4, IgnoredKeysStayOut DEF IgnoredKey
  <2>5. ASSUME args.tool = "create_runtime", RootfsOnly(args), NEW n \in Names, NEW d \in args.skip,
               NEW path, path = args.rootfs \o n, path # d, Under(path, d), Under(d, args.rootfs)
        PROVE  made.digests[n] = {}
    <3>1. made = CreateRuntimePolicy(args)
      BY <2>2, <2>5 DEF Made
    <3>2. made.digests = Combined(args, AlgoOf(args))
      BY <2>2, <3>1, RuntimePolicyIs
    <3>3. made.digests[n] = RootfsDigests(args.rootfs, args.skip, AlgoOf(args))[n]
      BY <2>5, <3>2, OnlyRootfs
    <3>4. args.rootfs \notin {None, <<>>}
      BY <2>5 DEF RootfsOnly
    <3>5. ASSUME NEW f \in ScannedFiles(args.rootfs, args.skip), RelPath(f.path, args.rootfs) = n
          PROVE  FALSE
      <4>1. f \in Files /\ Under(f.path, args.rootfs)
        BY <3>5, ScannedAreUnderRoot
      <4>2. f.path = path
        BY <2>2, <2>5, <3>4, <3>5, <4>1, RootAndName, PathsAreSequences
      <4>3. QED
        BY <2>2, <2>5, <3>4, <3>5, <4>1, <4>2, SkippedAreNotScanned
    <3>6. RootfsDigests(args.rootfs, args.skip, AlgoOf(args))[n] = {}
      BY <3>5 DEF RootfsDigests
    <3>7. QED
      BY <3>3, <3>6
  <2>6. QED
    BY <2>1, <2>4, <2>5 DEF LeftOutStaysOut
<1>2. QED
  BY <1>1, AlwaysMade, PTL
-----------------------------------------------------------------------------
(* The algorithms of the sources *)

LengthOf(a) == IF a \in {Sha256OrSm3, "sm3_256"} THEN "sha256" ELSE a

IsChoice(s) == s = [algo |-> s.algo, abort |-> s.abort]

\* What is chosen is of the length of every source so far.
Agrees(s, a) == a # None => s.algo # None /\ LengthOf(s.algo) = LengthOf(a)

LEMMA AgreeStep ==
  ASSUME PolicyToolAssumption, NEW s, IsChoice(s), NEW a, NEW t, t = Agree(s, a)
  PROVE  /\ IsChoice(t)
         /\ ~t.abort => /\ ~s.abort /\ a # Invalid /\ Agrees(t, a)
                        /\ s.algo # None => t.algo # None /\ LengthOf(t.algo) = LengthOf(s.algo)
                        /\ s.algo = None => t.algo = a
<1>1. None # Invalid /\ None # "sha256" /\ None # "sm3_256"
  BY DEF PolicyToolAssumption, Hashes
<1>2. CASE a = None
  <2>1. t = s
    BY <1>1, <1>2 DEF Agree
  <2>2. QED
    BY <1>1, <1>2, <2>1 DEF Agrees
<1>3. CASE a = Invalid
  <2>1. t = [s EXCEPT !.abort = TRUE]
    BY <1>1, <1>3 DEF Agree
  <2>2. t = [algo |-> s.algo, abort |-> TRUE]
    BY <2>1 DEF IsChoice
  <2>3. QED
    BY <2>2 DEF IsChoice
<1>4. CASE a \notin {None, Invalid} /\ s.algo = None
  <2>1. t = [s EXCEPT !.algo = a]
    BY <1>4 DEF Agree
  <2>2. t = [algo |-> a, abort |-> s.abort]
    BY <2>1 DEF IsChoice
  <2>3. QED
    BY <1>4, <2>2 DEF IsChoice, Agrees
<1>5. CASE a \notin {None, Invalid} /\ s.algo # None /\ a = s.algo
  <2>1. t = s
    BY <1>5 DEF Agree
  <2>2. QED
    BY <1>5, <2>1 DEF Agrees
<1>6. CASE a \notin {None, Invalid} /\ s.algo # None /\ a # s.algo
  <2>1. t = IF s.algo = Sha256OrSm3 /\ a \in {"sha256", "sm3_256"}
            THEN [s EXCEPT !.algo = a] ELSE [s EXCEPT !.abort = TRUE]
    BY <1>6 DEF Agree
  <2>2. CASE s.algo = Sha256OrSm3 /\ a \in {"sha256", "sm3_256"}
    <3>1. t = [algo |-> a, abort |-> s.abort]
      BY <2>1, <2>2 DEF IsChoice
    <3>2. LengthOf(a) = "sha256" /\ LengthOf(s.algo) = "sha256"
      BY <2>2 DEF LengthOf, Sha256OrSm3
    <3>3. QED
      BY <1>6, <3>1, <3>2 DEF IsChoice, Agrees
  <2>3. CASE ~(s.algo = Sha256OrSm3 /\ a \in {"sha256", "sm3_256"})
    <3>1. t = [algo |-> s.algo, abort |-> TRUE]
      BY <2>1, <2>3 DEF IsChoice
    <3>2. QED
      BY <3>1 DEF IsChoice
  <2>4. QED
    BY <2>2, <2>3
<1>7. QED
  BY <1>2, <1>3, <1>4, <1>5, <1>6

LEMMA Reconciled ==
  ASSUME PolicyToolAssumption, NEW sources, NEW r, r = Reconcile(sources), ~r.abort
  PROVE  \A i \in 1..4 : sources[i] # Invalid /\ Agrees(r, sources[i])
<1>1. PICK s0 : s0 = [algo |-> None, abort |-> FALSE]
  OBVIOUS
<1>2. PICK s1 : s1 = Agree(s0, sources[1])
  OBVIOUS
<1>3. PICK s2 : s2 = Agree(s1, sources[2])
  OBVIOUS
<1>4. PICK s3 : s3 = Agree(s2, sources[3])
  OBVIOUS
<1>5. r = Agree(s3, sources[4])
  BY <1>1, <1>2, <1>3, <1>4 DEF Reconcile
<1>6. IsChoice(s0)
  BY <1>1 DEF IsChoice
<1>7. IsChoice(s1) /\ IsChoice(s2) /\ IsChoice(s3)
  BY <1>2, <1>3, <1>4, <1>6, AgreeStep
<1>8. ~s3.abort /\ ~s2.abort /\ ~s1.abort
  BY <1>3, <1>4, <1>5, <1>6, <1>7, AgreeStep
<1>9. sources[4] # Invalid /\ Agrees(r, sources[4])
  BY <1>5, <1>7, AgreeStep
<1>10. /\ s3.algo # None => r.algo # None /\ LengthOf(r.algo) = LengthOf(s3.algo)
       /\ s2.algo # None => s3.algo # None /\ LengthOf(s3.algo) = LengthOf(s2.algo)
       /\ s1.algo # None => s2.algo # None /\ LengthOf(s2.algo) = LengthOf(s1.algo)
  BY <1>3, <1>4, <1>5, <1>7, <1>8, AgreeStep
<1>11. sources[3] # Invalid /\ Agrees(r, sources[3])
  <2>1. sources[3] # Invalid /\ Agrees(s3, sources[3])
    BY <1>4, <1>7, <1>8, AgreeStep
  <2>2. QED
    BY <1>10, <2>1 DEF Agrees
<1>12. sources[2] # Invalid /\ Agrees(r, sources[2])
  <2>1. sources[2] # Invalid /\ Agrees(s2, sources[2])
    BY <1>3, <1>7, <1>8, AgreeStep
  <2>2. QED
    BY <1>10, <2>1 DEF Agrees
<1>13. sources[1] # Invalid /\ Agrees(r, sources[1])
  <2>1. sources[1] # Invalid /\ Agrees(s1, sources[1])
    BY <1>2, <1>6, <1>8, AgreeStep
  <2>2. QED
    BY <1>10, <2>1 DEF Agrees
<1>14. QED
  BY <1>9, <1>11, <1>12, <1>13

LEMMA LengthsOfDigests ==
  ASSUME NEW d \in AllDigests
  PROVE  DigestLength(d) \in Hashes \ {"sm3_256"} /\ LengthOf(DigestLength(d)) = DigestLength(d)
<1>1. d.alg \in Hashes
  BY DEF AllDigests
<1>2. DigestLength(d) \in Hashes \ {"sm3_256"}
  BY <1>1 DEF DigestLength, Hashes
<1>3. QED
  BY <1>2 DEF LengthOf, Hashes, Sha256OrSm3

\* What is guessed from a list is of the length of all its digests.
LEMMA GuessedLength ==
  ASSUME PolicyToolAssumption, NEW list, NEW l \in Said(list), l.digest \in AllDigests,
         DigestLength(l.digest) = DigestLength(list[1].digest)
  PROVE  GuessedAlg(list) # None /\ LengthOf(GuessedAlg(list)) = DigestLength(l.digest)
<1>1. list # <<>>
  BY DEF Said
<1>2. PICK n : n = DigestLength(l.digest)
  OBVIOUS
<1>3. n \in Hashes \ {"sm3_256"} /\ LengthOf(n) = n
  BY <1>2, LengthsOfDigests
<1>4. GuessedAlg(list) = IF n = "sha256" THEN Sha256OrSm3 ELSE n
  BY <1>1, <1>2 DEF GuessedAlg
<1>5. None # Sha256OrSm3 /\ None \notin Hashes
  BY DEF PolicyToolAssumption
<1>6. LengthOf(Sha256OrSm3) = "sha256"
  BY DEF LengthOf
<1>7. QED
  BY <1>2, <1>3, <1>4, <1>5, <1>6

LEMMA BootLength ==
  ASSUME PolicyToolAssumption, NEW list, NEW l, l.digest \in AllDigests,
         DigestLength(l.digest) = DigestLength(list[1].digest), BootAggregateAlg(list) # Invalid
  PROVE  BootAggregateAlg(list) # None /\ LengthOf(BootAggregateAlg(list)) = DigestLength(l.digest)
<1>1. PICK n : n = DigestLength(l.digest)
  OBVIOUS
<1>2. n \in Hashes \ {"sm3_256"} /\ LengthOf(n) = n
  BY <1>1, LengthsOfDigests
<1>3. None \notin Hashes
  BY DEF PolicyToolAssumption
<1>4. PICK alg : alg = list[1].digest.alg
  OBVIOUS
<1>5. n = IF alg = "sm3_256" THEN "sha256" ELSE alg
  BY <1>1, <1>4 DEF DigestLength
<1>6. alg \in Hashes /\ LengthOf(alg) = n
  BY <1>2, <1>5 DEF Hashes, LengthOf, Sha256OrSm3
<1>7. BootAggregateAlg(list) \in {n, alg}
  BY <1>1, <1>4 DEF BootAggregateAlg
<1>8. QED
  BY <1>1, <1>2, <1>3, <1>6, <1>7

LEMMA CombinedLength ==
  ASSUME PolicyToolAssumption, ListsOfOneLength, NEW c \in Commands, c.repo = None,
         ~Reconcile(Sources(c)).abort, NEW n \in Names, NEW d \in Combined(c, AlgoOf(c))[n]
  PROVE  DigestLength(d) = LengthOf(AlgoOf(c))
<1>1. PICK r : r = Reconcile(Sources(c))
  OBVIOUS
<1>2. /\ Sources(c)[2] # Invalid /\ Agrees(r, Sources(c)[2])
      /\ Sources(c)[3] # Invalid /\ Agrees(r, Sources(c)[3])
      /\ Sources(c)[4] # Invalid /\ Agrees(r, Sources(c)[4])
  BY <1>1, Reconciled
<1>3. /\ Sources(c)[2] = IF c.base = None THEN None ELSE GuessedAlg(c.base.digests)
      /\ Sources(c)[3] = IF c.allowlist = None THEN None ELSE GuessedAlg(c.allowlist)
      /\ Sources(c)[4] = IF c.ima = None THEN None ELSE BootAggregateAlg(c.ima)
  BY DEF Sources
<1>4. AlgoOf(c) = IF r.algo = None THEN "sha256" ELSE r.algo
  BY <1>1 DEF AlgoOf
<1>5. ASSUME NEW a, a # None, Agrees(r, a), LengthOf(a) = DigestLength(d)
      PROVE  DigestLength(d) = LengthOf(AlgoOf(c))
  BY <1>4, <1>5 DEF Agrees
<1>6. CASE d \in UpdateBasePolicy(c.base).digests[n]
  <2>1. c.base # None
    <3> SUFFICES ASSUME c.base = None PROVE FALSE
      OBVIOUS
    <3>1. UpdateBasePolicy(c.base).digests = NoDigests
      BY DEF UpdateBasePolicy, EmptyPolicy
    <3>2. QED
      BY <1>6, <3>1, NoDigestsAt
  <2>2. PICK list : list = c.base.digests
    OBVIOUS
  <2>3. UpdateBasePolicy(c.base).digests = MapOf(Said(list))
    <3>1. PICK b : b = c.base
      OBVIOUS
    <3>2. b = [digests |-> b.digests, excludes |-> b.excludes, keyrings |-> b.keyrings,
               ima_buf |-> b.ima_buf, ignored_keyrings |-> b.ignored_keyrings,
               verification_keys |-> b.verification_keys]
      BY <2>1, <3>1 DEF PolicyToolAssumption
    <3>3. UpdateBasePolicy(b) =
            [b EXCEPT !.digests = MapOf(Said(b.digests)), !.keyrings = MapOf(Said(b.keyrings)),
                      !.ima_buf = MapOf(Said(b.ima_buf))]
      BY <2>1, <3>1, <3>2 DEF UpdateBasePolicy
    <3>4. QED
      BY <2>2, <3>1, <3>2, <3>3
  <2>4. PICK l \in Said(list) : l.digest = d
    BY <1>6, <2>3, MapOfLines
  <2>5. d \in AllDigests
    BY <2>1, <2>2, <2>4 DEF PolicyToolAssumption, ListsOf
  <2>6. DigestLength(d) = DigestLength(list[1].digest)
    BY <2>1, <2>2, <2>4 DEF ListsOfOneLength
  <2>7. GuessedAlg(list) # None /\ LengthOf(GuessedAlg(list)) = DigestLength(d)
    BY <2>4, <2>5, <2>6, GuessedLength
  <2>8. QED
    BY <1>2, <1>3, <1>5, <2>1, <2>2, <2>7
<1>7. CASE d \in MapOf(Said(ListOf(c.allowlist)))[n]
  <2>1. c.allowlist # None
    BY <1>7, NothingSaid DEF ListOf
  <2>2. PICK list : list = c.allowlist /\ list = ListOf(c.allowlist)
    BY <2>1 DEF ListOf
  <2>3. PICK l \in Said(list) : l.digest = d
    BY <1>7, <2>2, MapOfLines
  <2>4. d \in AllDigests
    BY <2>2, <2>3 DEF PolicyToolAssumption, ListsOf
  <2>5. DigestLength(d) = DigestLength(list[1].digest)
    BY <2>2, <2>3 DEF ListsOfOneLength
  <2>6. GuessedAlg(list) # None /\ LengthOf(GuessedAlg(list)) = DigestLength(d)
    BY <2>3, <2>4, <2>5, GuessedLength
  <2>7. QED
    BY <1>2, <1>3, <1>5, <2>1, <2>2, <2>6
<1>8. CASE d \in MeasuredDigests(ListOf(c.ima))[n]
  <2>1. c.ima # None
    BY <1>8, NothingSaid DEF ListOf
  <2>2. PICK list : list = c.ima /\ list = ListOf(c.ima)
    BY <2>1 DEF ListOf
  <2>3. MeasuredDigests(list)[n] =
          {k.digest : k \in {x \in {y \in Said(list) : y.template \in HashTemplates} : x.path = n}}
    BY MapOfLines DEF MeasuredDigests
  <2>4. PICK l \in Said(list) : l.digest = d /\ l.template \in HashTemplates
    BY <1>8, <2>2, <2>3
  <2>5. d \in AllDigests
    BY <2>2, <2>4 DEF PolicyToolAssumption, ListsOf
  <2>6. DigestLength(d) = DigestLength(list[1].digest)
    BY <2>2, <2>4 DEF ListsOfOneLength
  <2>7. BootAggregateAlg(list) # None /\ LengthOf(BootAggregateAlg(list)) = DigestLength(d)
    BY <1>2, <1>3, <2>1, <2>2, <2>4, <2>5, <2>6, BootLength
  <2>8. QED
    BY <1>2, <1>3, <1>5, <2>1, <2>2, <2>7
<1>9. CASE c.rootfs # None /\ d \in RootfsDigests(c.rootfs, c.skip, AlgoOf(c))[n]
  <2>1. PICK algo : algo = AlgoOf(c)
    OBVIOUS
  <2>2. d.alg = algo /\ algo \in Hashes
    BY <1>9, <2>1 DEF RootfsDigests, Digest
  <2>3. DigestLength(d) = LengthOf(algo)
    BY <2>2 DEF DigestLength, LengthOf, Hashes, Sha256OrSm3
  <2>4. QED
    BY <2>1, <2>3
<1>10. RepoDigests(c.repo)[n] = {}
  BY NoDigestsAt DEF RepoDigests
<1>11. QED
  <2>1. d \in UNION {UpdateBasePolicy(c.base).digests[n],
                     MapOf(Said(ListOf(c.allowlist)))[n], MeasuredDigests(ListOf(c.ima))[n],
                     IF c.rootfs = None THEN {} ELSE RootfsDigests(c.rootfs, c.skip, AlgoOf(c))[n],
                     RepoDigests(c.repo)[n]}
    BY CombinedAt
  <2>2. QED
    BY <1>6, <1>7, <1>8, <1>9, <1>10, <2>1

\* Digests of different lengths never get into one policy, if each of the lists is of
\* one length itself.
THEOREM DigestsOfOneLength == PolicyToolAssumption /\ ListsOfOneLength => (Spec => []OneLength)
<1> SUFFICES ASSUME PolicyToolAssumption, ListsOfOneLength PROVE Spec => []OneLength
  OBVIOUS
<1>1. Made => OneLength
  <2> SUFFICES ASSUME Made, Policy, args.tool = "create_runtime", args.repo = None,
                      NEW m \in Names, NEW n \in Names,
                      NEW d \in made.digests[m], NEW e \in made.digests[n]
               PROVE  DigestLength(d) = DigestLength(e)
    BY DEF OneLength
  <2>1. args \in Commands /\ made = CreateRuntimePolicy(args) /\ made \notin {Refused, Raised}
    BY DEF Made, Policy
  <2>2. made.digests = Combined(args, AlgoOf(args)) /\ ~Reconcile(Sources(args)).abort
    BY <2>1, RuntimePolicyIs
  <2>3. DigestLength(d) = LengthOf(AlgoOf(args)) /\ DigestLength(e) = LengthOf(AlgoOf(args))
    BY <2>1, <2>2, CombinedLength
  <2>4. QED
    BY <2>3
<1>2. QED
  BY <1>1, AlwaysMade, PTL
-----------------------------------------------------------------------------
(* Policies have digests *)

\* Any lines of a list that a command names.
LEMMA ListedDigests ==
  ASSUME PolicyToolAssumption, NEW c \in Commands, NEW list \in ListsOf(c),
         NEW lines \in SUBSET Said(list)
  PROVE  MapOf(lines) \in NameMaps
<1>1. \A l \in lines : l.digest \in AllDigests
  BY DEF PolicyToolAssumption
<1>2. QED
  BY <1>1, MapOfDigests DEF NameMaps

LEMMA BaseDigests ==
  ASSUME PolicyToolAssumption, NEW c \in Commands, NEW base, base = UpdateBasePolicy(c.base)
  PROVE  base.digests \in NameMaps /\ base.keyrings \in NameMaps /\ base.ima_buf \in NameMaps
<1>1. CASE c.base = None
  <2>1. base.digests = NoDigests /\ base.keyrings = NoDigests /\ base.ima_buf = NoDigests
    BY <1>1 DEF UpdateBasePolicy, EmptyPolicy
  <2>2. QED
    BY <2>1, NoDigestsTyped DEF NameMaps
<1>2. CASE c.base # None
  <2>1. PICK b : b = c.base
    OBVIOUS
  <2>2. b = [digests |-> b.digests, excludes |-> b.excludes, keyrings |-> b.keyrings,
             ima_buf |-> b.ima_buf, ignored_keyrings |-> b.ignored_keyrings,
             verification_keys |-> b.verification_keys]
    BY <1>2, <2>1 DEF PolicyToolAssumption
  <2>3. base = [b EXCEPT !.digests = MapOf(Said(b.digests)), !.keyrings = MapOf(Said(b.keyrings)),
                         !.ima_buf = MapOf(Said(b.ima_buf))]
    BY <1>2, <2>1 DEF UpdateBasePolicy
  <2>4. /\ base.digests = MapOf(Said(b.digests)) /\ base.keyrings = MapOf(Said(b.keyrings))
        /\ base.ima_buf = MapOf(Said(b.ima_buf))
    BY <2>2, <2>3
  <2>5. b.digests \in ListsOf(c) /\ b.keyrings \in ListsOf(c) /\ b.ima_buf \in ListsOf(c)
    BY <1>2, <2>1 DEF ListsOf
  <2>6. QED
    BY <2>4, <2>5, ListedDigests
<1>3. QED
  BY <1>1, <1>2

LEMMA OwnLists ==
  ASSUME NEW c
  PROVE  ListOf(c.allowlist) \in ListsOf(c) /\ ListOf(c.ima) \in ListsOf(c)
BY DEF ListsOf

LEMMA MeasuredAreDigests ==
  ASSUME PolicyToolAssumption, NEW c \in Commands, NEW ignored
  PROVE  /\ MeasuredDigests(ListOf(c.ima)) \in NameMaps
         /\ MeasuredKeyrings(ListOf(c.ima), ignored) \in NameMaps
         /\ MeasuredBufs(ListOf(c.ima)) \in NameMaps
<1>1. ListOf(c.ima) \in ListsOf(c)
  BY OwnLists
<1>2. QED
  BY <1>1, ListedDigests DEF MeasuredDigests, MeasuredKeyrings, MeasuredBufs

LEMMA PackagesAreDigests ==
  ASSUME PolicyToolAssumption, NEW c \in Commands, c.repo # None,
         NEW pkgs \in SUBSET c.repo.packages
  PROVE  PackageDigests(pkgs) \in NameMaps
<1>1. pkgs \subseteq ListsOf(c)
  BY DEF ListsOf
<1>2. \A l \in UNION {Said(p) : p \in pkgs} : l.digest \in AllDigests
  BY <1>1 DEF PolicyToolAssumption
<1>3. QED
  BY <1>2, MapOfDigests DEF PackageDigests, NameMaps

LEMMA RepoListed ==
  ASSUME PolicyToolAssumption, NEW c \in Commands, c.repo # None, c.repo.filelists # None
  PROVE  MapOf(Said(c.repo.filelists)) \in NameMaps
<1>1. c.repo.filelists \in ListsOf(c)
  BY DEF ListsOf, ListOf
<1>2. QED
  BY <1>1, ListedDigests

LEMMA RepoIsDigests ==
  ASSUME PolicyToolAssumption, NEW c \in Commands
  PROVE  RepoDigests(c.repo) \in NameMaps
<1>1. CASE c.repo = None
  <2>1. RepoDigests(c.repo) = NoDigests
    BY <1>1 DEF RepoDigests
  <2>2. QED
    BY <2>1, NoDigestsTyped DEF NameMaps
<1>2. CASE c.repo # None /\ ~c.repo.remote
  <2>1. RepoDigests(c.repo) = PackageDigests(c.repo.packages)
    BY <1>2 DEF RepoDigests, LocalRepoDigests
  <2>2. QED
    BY <1>2, <2>1, PackagesAreDigests
<1>3. CASE c.repo # None /\ c.repo.remote
  <2>1. RepoDigests(c.repo) = IF c.repo.filelists # None THEN MapOf(Said(c.repo.filelists))
                              ELSE PackageDigests(c.repo.packages \ c.repo.unreachable)
    BY <1>3 DEF RepoDigests, RemoteRepoDigests
  <2>2. PackageDigests(c.repo.packages \ c.repo.unreachable) \in NameMaps
    BY <1>3, PackagesAreDigests
  <2>3. c.repo.filelists # None => MapOf(Said(c.repo.filelists)) \in NameMaps
    BY <1>3, RepoListed
  <2>4. QED
    BY <2>1, <2>2, <2>3
<1>4. QED
  BY <1>1, <1>2, <1>3

LEMMA RootfsIsDigests ==
  ASSUME NEW root, NEW skip, NEW algo
  PROVE  RootfsDigests(root, skip, algo) \in NameMaps
<1>1. ASSUME NEW n \in Names
      PROVE  {Digest(algo, f.content) :
                f \in {g \in ScannedFiles(root, skip) : RelPath(g.path, root) = n /\ algo \in Hashes}}
               \in SUBSET AllDigests
  <2> SUFFICES ASSUME NEW f \in ScannedFiles(root, skip), algo \in Hashes
               PROVE  Digest(algo, f.content) \in AllDigests
    OBVIOUS
  <2>1. f \in Files
    BY DEF ScannedFiles, AllFiles
  <2>2. QED
    BY <2>1 DEF AllDigests, Digest
<1>2. QED
  BY <1>1 DEF RootfsDigests, NameMaps

LEMMA UpdatesAreDigests ==
  ASSUME PolicyToolAssumption, NEW c \in Commands, c.repo # None,
         NEW digests \in NameMaps, NEW d \in RepoUpdates(digests, c.repo)
  PROVE  d \in NameMaps
<1>1. PICK o \in Orders(c.repo.packages) :
        d = [n \in Names |->
               LET having == {i \in DOMAIN o : MapOf(Said(o[i]))[n] # {}}
                   first  == {i \in having : \A j \in having : i <= j}
               IN  IF having = {} THEN digests[n] ELSE UNION {MapOf(Said(o[i]))[n] : i \in first}]
  BY DEF RepoUpdates
<1>2. \A i \in DOMAIN o : o[i] \in ListsOf(c)
  BY DEF Orders, ListsOf
<1>3. \A i \in DOMAIN o : MapOf(Said(o[i])) \in [Names -> SUBSET AllDigests]
  BY <1>2, ListedDigests DEF NameMaps
<1>4. ASSUME NEW n \in Names, NEW first \in SUBSET (DOMAIN o)
      PROVE  UNION {MapOf(Said(o[i]))[n] : i \in first} \in SUBSET AllDigests
  BY <1>3
<1>5. ASSUME NEW n \in Names
      PROVE  d[n] \in SUBSET AllDigests
  <2>1. PICK having : having = {i \in DOMAIN o : MapOf(Said(o[i]))[n] # {}}
    OBVIOUS
  <2>2. PICK first : first = {i \in having : \A j \in having : i <= j}
    OBVIOUS
  <2>3. d[n] = IF having = {} THEN digests[n] ELSE UNION {MapOf(Said(o[i]))[n] : i \in first}
    BY <1>1, <2>1, <2>2
  <2>4. first \in SUBSET (DOMAIN o)
    BY <2>1, <2>2
  <2>5. digests[n] \in SUBSET AllDigests
    BY DEF NameMaps
  <2>6. QED
    BY <1>4, <2>3, <2>4, <2>5
<1>6. DOMAIN d = Names /\ d = [n \in Names |-> d[n]]
  BY <1>1
<1>7. QED
  BY <1>5, <1>6 DEF NameMaps

LEMMA MergeTyped ==
  ASSUME NEW m1 \in NameMaps, NEW m2 \in NameMaps
  PROVE  MergeMaplists(m1, m2) \in NameMaps
BY MergeDigests DEF NameMaps

LEMMA LegacyAreDigests ==
  ASSUME PolicyToolAssumption, NEW c \in Commands, NEW digests \in NameMaps,
         NEW d \in LegacyDigests(c, digests)
  PROVE  d \in NameMaps
<1>1. CASE c.allowlist # None
  <2>1. d = MergeMaplists(digests, MapOf(Said(c.allowlist)))
    BY <1>1 DEF LegacyDigests
  <2>2. c.allowlist \in ListsOf(c)
    BY <1>1, OwnLists DEF ListOf
  <2>3. QED
    BY <2>1, <2>2, ListedDigests, MergeTyped
<1>2. CASE c.allowlist = None /\ c.repo # None
  <2>1. d \in IF c.repo.remote THEN RemoteUpdates(digests, c.repo) ELSE RepoUpdates(digests, c.repo)
    BY <1>2 DEF LegacyDigests
  <2>2. CASE c.repo.remote /\ c.repo.filelists # None
    <3>1. d = MergeMaplists(digests, MapOf(Said(c.repo.filelists)))
      BY <2>1, <2>2 DEF RemoteUpdates
    <3>2. QED
      BY <1>2, <2>2, <3>1, RepoListed, MergeTyped
  <2>3. CASE ~(c.repo.remote /\ c.repo.filelists # None)
    <3>1. d \in RepoUpdates(digests, c.repo)
      BY <2>1, <2>3 DEF RemoteUpdates
    <3>2. QED
      BY <1>2, <3>1, UpdatesAreDigests
  <2>4. QED
    BY <2>2, <2>3
<1>3. CASE c.allowlist = None /\ c.repo = None
  <2>1. d = MergeMaplists(digests, MeasuredDigests(ListOf(c.ima)))
    BY <1>3 DEF LegacyDigests
  <2>2. QED
    BY <2>1, MeasuredAreDigests, MergeTyped
<1>4. QED
  BY <1>1, <1>2, <1>3

LEMMA CombinedAreDigests ==
  ASSUME PolicyToolAssumption, NEW c \in Commands, NEW algo
  PROVE  Combined(c, algo) \in NameMaps
<1>1. PICK r : r = IF c.rootfs = None THEN NoDigests ELSE RootfsDigests(c.rootfs, c.skip, algo)
  OBVIOUS
<1>2. r \in NameMaps
  <2>1. NoDigests \in NameMaps
    BY NoDigestsTyped DEF NameMaps
  <2>2. QED
    BY <1>1, <2>1, RootfsIsDigests
<1>3. MapOf(Said(ListOf(c.allowlist))) \in NameMaps
  BY OwnLists, ListedDigests
<1>4. PICK l : l = MergeMaplists(MapOf(Said(ListOf(c.allowlist))), MeasuredDigests(ListOf(c.ima)))
  OBVIOUS
<1>5. l \in NameMaps
  BY <1>3, <1>4, MeasuredAreDigests, MergeTyped
<1>6. PICK f : f = MergeMaplists(r, RepoDigests(c.repo))
  OBVIOUS
<1>7. f \in NameMaps
  BY <1>2, <1>6, RepoIsDigests, MergeTyped
<1>8. PICK b : b = MergeMaplists(UpdateBasePolicy(c.base).digests, l)
  OBVIOUS
<1>9. b \in NameMaps
  BY <1>5, <1>8, BaseDigests, MergeTyped
<1>10. Combined(c, algo) = MergeMaplists(b, f)
  BY <1>1, <1>4, <1>6, <1>8 DEF Combined
<1>11. QED
  BY <1>7, <1>9, <1>10, MergeTyped

LEMMA RestAreDigests ==
  ASSUME PolicyToolAssumption, NEW c \in Commands, NEW p, NEW base,
         base = UpdateBasePolicy(c.base), AddsRest(p, c, base)
  PROVE  DOMAIN p = DOMAIN EmptyPolicy /\ p.keyrings \in NameMaps /\ p.ima_buf \in NameMaps
<1>1. base.keyrings \in NameMaps /\ base.ima_buf \in NameMaps
  BY BaseDigests
<1>2. p.keyrings \in NameMaps
  <2>1. PICK m : m = MergeMaplists(base.keyrings,
                       MeasuredKeyrings(ListOf(c.ima), base.ignored_keyrings \cup c.ignored))
    OBVIOUS
  <2>2. m \in NameMaps
    BY <1>1, <2>1, MeasuredAreDigests, MergeTyped
  <2>3. p.keyrings = IF c.get_keyrings THEN m ELSE base.keyrings
    BY <2>1 DEF AddsRest
  <2>4. QED
    BY <1>1, <2>2, <2>3
<1>3. p.ima_buf \in NameMaps
  <2>1. PICK m : m = MergeMaplists(base.ima_buf, MeasuredBufs(ListOf(c.ima)))
    OBVIOUS
  <2>2. m \in NameMaps
    BY <1>1, <2>1, MeasuredAreDigests, MergeTyped
  <2>3. p.ima_buf = IF c.get_ima_buf THEN m ELSE base.ima_buf
    BY <2>1 DEF AddsRest
  <2>4. QED
    BY <1>1, <2>2, <2>3
<1>4. DOMAIN p = DOMAIN EmptyPolicy
  BY DEF AddsRest, IsPolicy, EmptyPolicy
<1>5. QED
  BY <1>2, <1>3, <1>4

\* Both tools make policies: every part is there, and what names map to is digests.
THEOREM PoliciesAreTyped == PolicyToolAssumption => (Spec => []TypeOK)
<1> SUFFICES ASSUME PolicyToolAssumption PROVE Spec => []TypeOK
  OBVIOUS
<1>1. Made => TypeOK
  <2> SUFFICES ASSUME Made PROVE TypeOK
    OBVIOUS
  <2>1. args \in Commands
    BY DEF Made
  <2>2. ASSUME Policy
        PROVE  /\ DOMAIN made = DOMAIN EmptyPolicy
               /\ {made.digests, made.keyrings, made.ima_buf} \subseteq NameMaps
    <3>1. PICK base : base = UpdateBasePolicy(args.base)
      OBVIOUS
    <3>2. made \notin {None, Refused, Raised}
      BY <2>2 DEF Policy
    <3>3. CASE args.tool = "create_runtime" /\ made = CreateRuntimePolicy(args)
      <4>1. AddsRest(made, args, base) /\ made.digests = Combined(args, AlgoOf(args))
        BY <2>1, <3>1, <3>2, <3>3, RuntimePolicyIs
      <4>2. made.digests \in NameMaps
        BY <2>1, <4>1, CombinedAreDigests
      <4>3. QED
        BY <2>1, <3>1, <4>1, <4>2, RestAreDigests
    <3>4. CASE args.tool = "create_policy" /\ made \in LegacyPolicies(args)
      <4>1. AddsRest(made, args, base) /\ made.digests \in LegacyDigests(args, base.digests)
        BY <2>1, <3>1, <3>2, <3>4, LegacyPolicyIs
      <4>2. base.digests \in NameMaps
        BY <2>1, <3>1, BaseDigests
      <4>3. made.digests \in NameMaps
        BY <2>1, <4>1, <4>2, LegacyAreDigests
      <4>4. QED
        BY <2>1, <3>1, <4>1, <4>3, RestAreDigests
    <3>5. QED
      BY <3>2, <3>3, <3>4 DEF Made
  <2>3. QED
    BY <2>1, <2>2 DEF TypeOK
<1>2. QED
  BY <1>1, AlwaysMade, PTL
-----------------------------------------------------------------------------
(* Databases, and what one step of a revision does to them *)

\* A database as a record of its parts.
IsDatabase(d) ==
  /\ d = [columns |-> d.columns, row |-> d.row, stored |-> d.stored,
          format |-> d.format, raised |-> d.raised]
  /\ d.columns = [t \in M!Tables |-> d.columns[t]]
  /\ d.row \in [Agents -> M!Rows \cup {None}]
  /\ d.stored \in [M!PolicyTables -> [M!PolicyNames -> M!Contents \cup {None}]]

\* One step: Do, where there is a step.
One(d, s) ==
  IF d.raised THEN d
  ELSE IF M!Raises(d, s) THEN [d EXCEPT !.raised = TRUE]
  ELSE M!Applied(d, s)

LEMMA RunOfNone ==
  ASSUME NEW d
  PROVE  M!RunSteps(d, <<>>) = d
BY DEF M!RunSteps, M!Do

LEMMA RunOfOne ==
  ASSUME NEW d, NEW s
  PROVE  M!RunSteps(d, <<s>>) = One(d, s)
<1>1. Len(<<s>>) = 1 /\ <<s>>[1] = s
  OBVIOUS
<1>2. PICK e : e = M!Do(d, <<s>>, 1)
  OBVIOUS
<1>3. e = One(d, s)
  BY <1>1, <1>2 DEF M!Do, One
<1>4. M!Do(e, <<s>>, 2) = e /\ M!Do(e, <<s>>, 3) = e
  BY <1>1 DEF M!Do
<1>5. QED
  BY <1>2, <1>3, <1>4 DEF M!RunSteps

LEMMA RunOfTwo ==
  ASSUME NEW d, NEW s, NEW u
  PROVE  M!RunSteps(d, <<s, u>>) = One(One(d, s), u)
<1>1. Len(<<s, u>>) = 2 /\ <<s, u>>[1] = s /\ <<s, u>>[2] = u
  OBVIOUS
<1>2. PICK e : e = M!Do(d, <<s, u>>, 1)
  OBVIOUS
<1>3. e = One(d, s)
  BY <1>1, <1>2 DEF M!Do, One
<1>4. PICK f : f = M!Do(e, <<s, u>>, 2)
  OBVIOUS
<1>5. f = One(e, u)
  BY <1>1, <1>4 DEF M!Do, One
<1>6. M!Do(f, <<s, u>>, 3) = f
  BY <1>1 DEF M!Do
<1>7. QED
  BY <1>2, <1>3, <1>4, <1>5, <1>6 DEF M!RunSteps

LEMMA RunOfThree ==
  ASSUME NEW d, NEW s, NEW u, NEW w
  PROVE  M!RunSteps(d, <<s, u, w>>) = One(One(One(d, s), u), w)
<1>1. /\ Len(<<s, u, w>>) = 3
      /\ <<s, u, w>>[1] = s /\ <<s, u, w>>[2] = u /\ <<s, u, w>>[3] = w
  OBVIOUS
<1>2. PICK e : e = M!Do(d, <<s, u, w>>, 1)
  OBVIOUS
<1>3. e = One(d, s)
  BY <1>1, <1>2 DEF M!Do, One
<1>4. PICK f : f = M!Do(e, <<s, u, w>>, 2)
  OBVIOUS
<1>5. f = One(e, u)
  BY <1>1, <1>4 DEF M!Do, One
<1>6. M!Do(f, <<s, u, w>>, 3) = One(f, w)
  BY <1>1 DEF M!Do, One
<1>7. QED
  BY <1>2, <1>3, <1>4, <1>5, <1>6 DEF M!RunSteps
-----------------------------------------------------------------------------
(* What each kind of step does to a database it does not refuse *)

\* Columns brought or taken away; rows stay unless what they hold goes.
Others(d, e) == e.stored = d.stored /\ e.format = d.format

Came(d, e, t, cs) ==
  /\ IsDatabase(e) /\ ~e.raised /\ Others(d, e) /\ e.row = d.row
  /\ \A u \in M!Tables : e.columns[u] = IF u = t THEN d.columns[u] \cup cs ELSE d.columns[u]

Gone(d, e, t, cs) ==
  /\ IsDatabase(e) /\ ~e.raised /\ Others(d, e) /\ e.row = M!RowsWithout(d, M!Drop(t, cs))
  /\ \A u \in M!Tables : e.columns[u] = IF u = t THEN d.columns[u] \ cs ELSE d.columns[u]

LEMMA AddStep ==
  ASSUME NEW d, IsDatabase(d), ~d.raised, NEW t \in M!Tables, NEW cs, NEW s \in {M!Add(t, cs), M!Create(t, cs)}
  PROVE  One(d, s).raised \/ Came(d, One(d, s), t, cs)
<1>1. PICK c : c = [d.columns EXCEPT ![t] = @ \cup cs]
  OBVIOUS
<1>2. /\ c = [u \in M!Tables |-> c[u]]
      /\ \A u \in M!Tables : c[u] = IF u = t THEN d.columns[u] \cup cs ELSE d.columns[u]
  BY <1>1 DEF IsDatabase
<1>3. CASE M!Raises(d, s)
  <2>1. One(d, s) = [d EXCEPT !.raised = TRUE]
    BY <1>3 DEF One
  <2>2. QED
    BY <2>1 DEF IsDatabase
<1>4. CASE ~M!Raises(d, s)
  <2>1. PICK e : e = [columns |-> c, row |-> d.row, stored |-> d.stored,
                      format |-> d.format, raised |-> d.raised]
    OBVIOUS
  <2>2. s.op \in {"add", "create"} /\ s.table = t /\ s.cs = cs
    BY DEF M!Add, M!Create
  <2>3. M!Altered(d, s) = [d EXCEPT !.columns[t] = @ \cup cs]
    BY <2>2 DEF M!Altered
  <2>4. M!Altered(d, s) = e
    BY <1>1, <2>1, <2>3 DEF IsDatabase
  <2>5. One(d, s) = e
    BY <1>4, <2>2, <2>4 DEF One, M!Applied
  <2>6. QED
    BY <1>2, <2>1, <2>5 DEF Came, Others, IsDatabase
<1>5. QED
  BY <1>3, <1>4

\* A table that is there is left as it is.
LEMMA EnsureStep ==
  ASSUME NEW d, IsDatabase(d), ~d.raised, NEW t \in M!Tables, NEW cs
  PROVE  One(d, M!Ensure(t, cs)) = d \/ Came(d, One(d, M!Ensure(t, cs)), t, cs)
<1>1. PICK s : s = M!Ensure(t, cs)
  OBVIOUS
<1>2. s.op = "ensure" /\ s.table = t /\ s.cs = cs
  BY <1>1 DEF M!Ensure
<1>3. One(d, s) = M!Altered(d, s)
  BY <1>2 DEF One, M!Raises, M!Applied
<1>4. CASE d.columns[t] # {}
  <2>1. One(d, s) = d
    BY <1>2, <1>3, <1>4 DEF M!Altered
  <2>2. QED
    BY <1>1, <2>1
<1>5. CASE d.columns[t] = {}
  <2>1. PICK c : c = [d.columns EXCEPT ![t] = cs]
    OBVIOUS
  <2>2. /\ c = [u \in M!Tables |-> c[u]]
        /\ \A u \in M!Tables : c[u] = IF u = t THEN d.columns[u] \cup cs ELSE d.columns[u]
    BY <1>5, <2>1 DEF IsDatabase
  <2>3. PICK e : e = [columns |-> c, row |-> d.row, stored |-> d.stored,
                      format |-> d.format, raised |-> d.raised]
    OBVIOUS
  <2>4. M!Altered(d, s) = [d EXCEPT !.columns[t] = cs]
    BY <1>2, <1>5 DEF M!Altered
  <2>5. One(d, s) = e
    BY <1>3, <2>1, <2>3, <2>4 DEF IsDatabase
  <2>6. Came(d, e, t, cs)
    BY <2>2, <2>3 DEF Came, Others, IsDatabase
  <2>7. QED
    BY <1>1, <2>5, <2>6
<1>6. QED
  BY <1>4, <1>5

LEMMA RowsWithoutTyped ==
  ASSUME NEW d, IsDatabase(d), NEW s, M!MigrationsAssumption
  PROVE  /\ M!RowsWithout(d, s) \in [Agents -> M!Rows \cup {None}]
         /\ \A a \in Agents : M!RowsWithout(d, s)[a] = None <=> d.row[a] = None
<1>1. PICK r : r = M!RowsWithout(d, s)
  OBVIOUS
<1>2. r = [a \in Agents |-> r[a]]
  BY <1>1 DEF M!RowsWithout
<1>3. ASSUME NEW a \in Agents
      PROVE  r[a] \in M!Rows \cup {None} /\ (r[a] = None <=> d.row[a] = None)
  <2>1. CASE d.row[a] = None \/ s.table # M!V
    <3>1. r[a] = d.row[a]
      BY <1>1, <2>1 DEF M!RowsWithout
    <3>2. QED
      BY <3>1 DEF IsDatabase
  <2>2. CASE d.row[a] # None /\ s.table = M!V
    <3>1. d.row[a] \in M!Rows
      BY <2>2 DEF IsDatabase
    <3>2. PICK q : q = [t \in M!PolicyTables |->
             [column |-> IF M!Source(t) \in s.cs THEN Null ELSE d.row[a][t].column,
              link   |-> IF M!Reference(t) \in s.cs THEN None ELSE d.row[a][t].link]]
      OBVIOUS
    <3>3. \A t \in M!PolicyTables : d.row[a][t].column \in M!Contents /\ d.row[a][t].link \in Agents \cup {None}
      BY <3>1 DEF M!Rows
    <3>4. \A t \in M!PolicyTables : q[t] \in [column : M!Contents, link : Agents \cup {None}]
      BY <3>2, <3>3 DEF M!Contents
    <3>5. q \in M!Rows
      BY <3>2, <3>4 DEF M!Rows
    <3>6. r[a] = q
      BY <1>1, <2>2, <3>2 DEF M!RowsWithout
    <3>7. QED
      BY <2>2, <3>5, <3>6 DEF M!MigrationsAssumption
  <2>3. QED
    BY <2>1, <2>2
<1>4. QED
  BY <1>1, <1>2, <1>3

LEMMA DropStep ==
  ASSUME NEW d, IsDatabase(d), ~d.raised, NEW t \in M!Tables, NEW cs, M!MigrationsAssumption
  PROVE  One(d, M!Drop(t, cs)).raised \/ Gone(d, One(d, M!Drop(t, cs)), t, cs)
<1>1. PICK s : s = M!Drop(t, cs)
  OBVIOUS
<1>2. s.op = "drop" /\ s.table = t /\ s.cs = cs
  BY <1>1 DEF M!Drop
<1>3. PICK c : c = [d.columns EXCEPT ![t] = @ \ cs]
  OBVIOUS
<1>4. /\ c = [u \in M!Tables |-> c[u]]
      /\ \A u \in M!Tables : c[u] = IF u = t THEN d.columns[u] \ cs ELSE d.columns[u]
  BY <1>3 DEF IsDatabase
<1>5. PICK r : r = M!RowsWithout(d, s)
  OBVIOUS
<1>6. r \in [Agents -> M!Rows \cup {None}]
  BY <1>5, RowsWithoutTyped
<1>7. CASE M!Raises(d, s)
  <2>1. One(d, s) = [d EXCEPT !.raised = TRUE]
    BY <1>7 DEF One
  <2>2. QED
    BY <1>1, <2>1 DEF IsDatabase
<1>8. CASE ~M!Raises(d, s)
  <2>1. PICK e : e = [columns |-> c, row |-> r, stored |-> d.stored,
                      format |-> d.format, raised |-> d.raised]
    OBVIOUS
  <2>2. M!Altered(d, s) = [d EXCEPT !.columns[t] = @ \ cs, !.row = r]
    BY <1>2, <1>5 DEF M!Altered
  <2>3. M!Altered(d, s) = e
    BY <1>3, <2>1, <2>2 DEF IsDatabase
  <2>4. One(d, s) = e
    BY <1>2, <1>8, <2>3 DEF One, M!Applied
  <2>5. IsDatabase(e)
    BY <1>4, <1>6, <2>1 DEF IsDatabase
  <2>6. QED
    BY <1>1, <1>4, <1>5, <2>1, <2>4, <2>5 DEF Gone, Others
<1>9. QED
  BY <1>7, <1>8

Renamed(d, e, t, c, new) ==
  /\ IsDatabase(e) /\ ~e.raised /\ Others(d, e) /\ e.row = d.row
  /\ \A u \in M!Tables : e.columns[u] = IF u = t THEN (d.columns[u] \ {c}) \cup {new} ELSE d.columns[u]

LEMMA RenameStep ==
  ASSUME NEW d, IsDatabase(d), ~d.raised, NEW t \in M!Tables, NEW c, NEW new
  PROVE  One(d, M!Rename(t, c, new)).raised \/ Renamed(d, One(d, M!Rename(t, c, new)), t, c, new)
<1>1. PICK s : s = M!Rename(t, c, new)
  OBVIOUS
<1>2. s.op = "rename" /\ s.table = t /\ s.cs = {c} /\ s.new = new
  BY <1>1 DEF M!Rename
<1>3. PICK k : k = [d.columns EXCEPT ![t] = (@ \ {c}) \cup {new}]
  OBVIOUS
<1>4. /\ k = [u \in M!Tables |-> k[u]]
      /\ \A u \in M!Tables : k[u] = IF u = t THEN (d.columns[u] \ {c}) \cup {new} ELSE d.columns[u]
  BY <1>3 DEF IsDatabase
<1>5. CASE M!Raises(d, s)
  <2>1. One(d, s) = [d EXCEPT !.raised = TRUE]
    BY <1>5 DEF One
  <2>2. QED
    BY <1>1, <2>1 DEF IsDatabase
<1>6. CASE ~M!Raises(d, s)
  <2>1. PICK e : e = [columns |-> k, row |-> d.row, stored |-> d.stored,
                      format |-> d.format, raised |-> d.raised]
    OBVIOUS
  <2>2. M!Altered(d, s) = [d EXCEPT !.columns[t] = (@ \ {c}) \cup {new}]
    BY <1>2 DEF M!Altered
  <2>3. M!Altered(d, s) = e
    BY <1>3, <2>1, <2>2 DEF IsDatabase
  <2>4. One(d, s) = e
    BY <1>2, <1>6, <2>3 DEF One, M!Applied
  <2>5. IsDatabase(e)
    BY <1>4, <2>1 DEF IsDatabase
  <2>6. QED
    BY <1>1, <1>4, <2>1, <2>4, <2>5 DEF Renamed, Others
<1>7. QED
  BY <1>5, <1>6

Removed(d, e, t) ==
  /\ IsDatabase(e) /\ ~e.raised /\ e.format = d.format
  /\ \A u \in M!Tables : e.columns[u] = IF u = t THEN {} ELSE d.columns[u]
  /\ \A a \in Agents : e.row[a] = IF t = M!V THEN None ELSE d.row[a]
  /\ \A u \in M!PolicyTables : e.stored[u] = IF u = t THEN M!NoPolicies ELSE d.stored[u]

LEMMA RemoveStep ==
  ASSUME NEW d, IsDatabase(d), ~d.raised, NEW t \in M!Tables
  PROVE  One(d, M!Remove(t)).raised \/ Removed(d, One(d, M!Remove(t)), t)
<1>1. PICK s : s = M!Remove(t)
  OBVIOUS
<1>2. s.op = "remove" /\ s.table = t
  BY <1>1 DEF M!Remove
<1>3. PICK c : c = [d.columns EXCEPT ![t] = {}]
  OBVIOUS
<1>4. c = [u \in M!Tables |-> c[u]] /\ \A u \in M!Tables : c[u] = IF u = t THEN {} ELSE d.columns[u]
  BY <1>3 DEF IsDatabase
<1>5. PICK r : r = [a \in Agents |-> IF t = M!V THEN None ELSE d.row[a]]
  OBVIOUS
<1>6. r \in [Agents -> M!Rows \cup {None}]
  BY <1>5 DEF IsDatabase
<1>7. PICK p : p = [u \in M!PolicyTables |-> IF u = t THEN M!NoPolicies ELSE d.stored[u]]
  OBVIOUS
<1>8. p \in [M!PolicyTables -> [M!PolicyNames -> M!Contents \cup {None}]]
  <2>1. M!NoPolicies \in [M!PolicyNames -> M!Contents \cup {None}]
    BY DEF M!NoPolicies
  <2>2. QED
    BY <1>7, <2>1 DEF IsDatabase
<1>9. CASE M!Raises(d, s)
  <2>1. One(d, s) = [d EXCEPT !.raised = TRUE]
    BY <1>9 DEF One
  <2>2. QED
    BY <1>1, <2>1 DEF IsDatabase
<1>10. CASE ~M!Raises(d, s)
  <2>1. PICK e : e = [columns |-> c, row |-> r, stored |-> p,
                      format |-> d.format, raised |-> d.raised]
    OBVIOUS
  <2>2. M!Altered(d, s) = [d EXCEPT !.columns[t] = {}, !.row = r, !.stored = p]
    BY <1>2, <1>5, <1>7 DEF M!Altered
  <2>3. M!Altered(d, s) = e
    BY <1>3, <2>1, <2>2 DEF IsDatabase
  <2>4. One(d, s) = e
    BY <1>2, <1>10, <2>3 DEF One, M!Applied
  <2>5. IsDatabase(e)
    BY <1>4, <1>6, <1>8, <2>1 DEF IsDatabase
  <2>6. e.row = r /\ e.stored = p /\ e.columns = c /\ e.format = d.format /\ ~e.raised
    BY <2>1
  <2>7. QED
    BY <1>1, <1>4, <1>5, <1>7, <2>4, <2>5, <2>6 DEF Removed
<1>11. QED
  BY <1>9, <1>10
-----------------------------------------------------------------------------
(* The steps on the policies themselves *)

SameColumns(d, e) == e.columns = d.columns /\ e.format = d.format

MovedTo(d, e, t) ==
  /\ IsDatabase(e) /\ ~e.raised /\ SameColumns(d, e) /\ e.row = d.row
  /\ \A u \in M!PolicyTables : u # t => e.stored[u] = d.stored[u]
  /\ \A a \in Agents : d.row[a] # None => e.stored[t][a] = d.row[a][t].column

LEMMA MoveStep ==
  ASSUME NEW d, IsDatabase(d), ~d.raised, NEW t \in M!PolicyTables
  PROVE  One(d, M!Data("move", t)).raised \/ MovedTo(d, One(d, M!Data("move", t)), t)
<1>1. PICK s : s = M!Data("move", t)
  OBVIOUS
<1>2. s.op = "move" /\ s.table = t
  BY <1>1 DEF M!Data
<1>3. PICK q : q = [n \in M!PolicyNames |-> IF n \in Agents /\ d.row[n] # None
                                    THEN d.row[n][t].column ELSE d.stored[t][n]]
  OBVIOUS
<1>4. q \in [M!PolicyNames -> M!Contents \cup {None}]
  <2>1. \A n \in Agents : d.row[n] # None => d.row[n][t].column \in M!Contents
    BY DEF IsDatabase, M!Rows
  <2>2. \A n \in M!PolicyNames : d.stored[t][n] \in M!Contents \cup {None}
    BY DEF IsDatabase
  <2>3. QED
    BY <1>3, <2>1, <2>2
<1>5. PICK p : p = [d.stored EXCEPT ![t] = q]
  OBVIOUS
<1>6. /\ p \in [M!PolicyTables -> [M!PolicyNames -> M!Contents \cup {None}]]
      /\ p[t] = q /\ \A u \in M!PolicyTables : u # t => p[u] = d.stored[u]
  BY <1>4, <1>5 DEF IsDatabase
<1>7. CASE M!Raises(d, s)
  <2>1. One(d, s) = [d EXCEPT !.raised = TRUE]
    BY <1>7 DEF One
  <2>2. QED
    BY <1>1, <2>1 DEF IsDatabase
<1>8. CASE ~M!Raises(d, s)
  <2>1. PICK e : e = [columns |-> d.columns, row |-> d.row, stored |-> p,
                      format |-> d.format, raised |-> d.raised]
    OBVIOUS
  <2>2. M!Moved(d, t) = [d EXCEPT !.stored[t] = q]
    BY <1>3 DEF M!Moved
  <2>3. M!Moved(d, t) = e
    BY <1>5, <2>1, <2>2 DEF IsDatabase
  <2>4. One(d, s) = e
    BY <1>2, <1>8, <2>3 DEF One, M!Applied
  <2>5. IsDatabase(e)
    BY <1>6, <2>1 DEF IsDatabase
  <2>6. e.row = d.row /\ e.stored = p /\ SameColumns(d, e) /\ ~e.raised
    BY <2>1 DEF SameColumns
  <2>7. \A a \in Agents : d.row[a] # None => p[t][a] = d.row[a][t].column
    BY <1>3, <1>6 DEF M!PolicyNames
  <2>8. QED
    BY <1>1, <1>6, <2>4, <2>5, <2>6, <2>7 DEF MovedTo
<1>9. QED
  BY <1>7, <1>8

LinkedBy(d, e, t) ==
  /\ IsDatabase(e) /\ ~e.raised /\ SameColumns(d, e) /\ e.stored = d.stored
  /\ \A a \in Agents :
       /\ e.row[a] = None <=> d.row[a] = None
       /\ d.row[a] # None =>
            /\ \A u \in M!PolicyTables : u # t => e.row[a][u] = d.row[a][u]
            /\ e.row[a][t].column = d.row[a][t].column
            /\ e.row[a][t].link = IF d.stored[t][a] # None THEN a ELSE d.row[a][t].link

LEMMA LinkStep ==
  ASSUME NEW d, IsDatabase(d), ~d.raised, NEW t \in M!PolicyTables, M!MigrationsAssumption
  PROVE  LinkedBy(d, One(d, M!Data("link", t)), t)
<1>1. PICK s : s = M!Data("link", t)
  OBVIOUS
<1>2. s.op = "link" /\ s.table = t
  BY <1>1 DEF M!Data
<1>3. PICK r : r = [a \in Agents |->
     IF d.row[a] # None /\ d.stored[t][a] # None THEN [d.row[a] EXCEPT ![t].link = a] ELSE d.row[a]]
  OBVIOUS
<1>4. ASSUME NEW a \in Agents
      PROVE  /\ r[a] \in M!Rows \cup {None}
             /\ r[a] = None <=> d.row[a] = None
             /\ d.row[a] # None =>
                  /\ \A u \in M!PolicyTables : u # t => r[a][u] = d.row[a][u]
                  /\ r[a][t].column = d.row[a][t].column
                  /\ r[a][t].link = IF d.stored[t][a] # None THEN a ELSE d.row[a][t].link
  <2>1. CASE d.row[a] # None /\ d.stored[t][a] # None
    <3>1. PICK q : q = d.row[a]
      OBVIOUS
    <3>2. q \in M!Rows
      BY <2>1, <3>1 DEF IsDatabase
    <3>3. PICK x : x = [column |-> q[t].column, link |-> a]
      OBVIOUS
    <3>4. x \in [column : M!Contents, link : Agents \cup {None}]
      BY <3>2, <3>3 DEF M!Rows
    <3>5. [q[t] EXCEPT !.link = a] = x
      BY <3>2, <3>3 DEF M!Rows
    <3>6. r[a] = [q EXCEPT ![t] = x]
      BY <1>3, <2>1, <3>1, <3>5
    <3>7. /\ r[a] \in M!Rows
          /\ r[a][t] = x /\ \A u \in M!PolicyTables : u # t => r[a][u] = q[u]
      BY <3>2, <3>4, <3>6 DEF M!Rows
    <3>8. QED
      BY <2>1, <3>1, <3>3, <3>7 DEF M!MigrationsAssumption
  <2>2. CASE ~(d.row[a] # None /\ d.stored[t][a] # None)
    <3>1. r[a] = d.row[a]
      BY <1>3, <2>2
    <3>2. QED
      BY <2>2, <3>1 DEF IsDatabase
  <2>3. QED
    BY <2>1, <2>2
<1>5. r \in [Agents -> M!Rows \cup {None}]
  BY <1>3, <1>4
<1>6. ~M!Raises(d, s)
  BY <1>2 DEF M!Raises
<1>7. PICK e : e = [columns |-> d.columns, row |-> r, stored |-> d.stored,
                    format |-> d.format, raised |-> d.raised]
  OBVIOUS
<1>8. M!Linked(d, t) = [d EXCEPT !.row = r]
  BY <1>3 DEF M!Linked
<1>9. M!Linked(d, t) = e
  BY <1>7, <1>8 DEF IsDatabase
<1>10. One(d, s) = e
  BY <1>2, <1>6, <1>9 DEF One, M!Applied
<1>11. IsDatabase(e)
  BY <1>5, <1>7 DEF IsDatabase
<1>12. e.row = r /\ e.stored = d.stored /\ SameColumns(d, e) /\ ~e.raised
  BY <1>7 DEF SameColumns
<1>13. QED
  BY <1>1, <1>4, <1>10, <1>11, <1>12 DEF LinkedBy

\* Every stored policy back in the row of its name; without an error none of them was
\* referred to.
ReturnedTo(d, e, t) ==
  /\ IsDatabase(e) /\ ~e.raised /\ SameColumns(d, e)
  /\ \A u \in M!PolicyTables : u # t => e.stored[u] = d.stored[u]
  /\ \A a \in Agents :
       /\ e.row[a] = None <=> d.row[a] = None
       /\ d.row[a] # None =>
            /\ \A u \in M!PolicyTables : u # t => e.row[a][u] = d.row[a][u]
            /\ e.row[a][t].link = d.row[a][t].link
            /\ e.row[a][t].column = IF d.stored[t][a] # None THEN d.stored[t][a] ELSE d.row[a][t].column
            /\ d.stored[t][a] # None => d.row[a][t].link # a /\ M!Source(t) \in d.columns[M!V]

LEMMA ReturnStep ==
  ASSUME NEW d, IsDatabase(d), ~d.raised, NEW t \in M!PolicyTables, M!MigrationsAssumption
  PROVE  One(d, M!Data("return", t)).raised \/ ReturnedTo(d, One(d, M!Data("return", t)), t)
<1>1. PICK s : s = M!Data("return", t)
  OBVIOUS
<1>2. s.op = "return" /\ s.table = t
  BY <1>1 DEF M!Data
<1>3. PICK r : r = [a \in Agents |->
     IF d.row[a] # None /\ d.stored[t][a] # None
     THEN [d.row[a] EXCEPT ![t].column = d.stored[t][a]] ELSE d.row[a]]
  OBVIOUS
<1>4. ASSUME NEW a \in Agents
      PROVE  /\ r[a] \in M!Rows \cup {None}
             /\ r[a] = None <=> d.row[a] = None
             /\ d.row[a] # None =>
                  /\ \A u \in M!PolicyTables : u # t => r[a][u] = d.row[a][u]
                  /\ r[a][t].link = d.row[a][t].link
                  /\ r[a][t].column =
                       IF d.stored[t][a] # None THEN d.stored[t][a] ELSE d.row[a][t].column
  <2>1. CASE d.row[a] # None /\ d.stored[t][a] # None
    <3>1. PICK q : q = d.row[a]
      OBVIOUS
    <3>2. q \in M!Rows
      BY <2>1, <3>1 DEF IsDatabase
    <3>3. PICK x : x = [column |-> d.stored[t][a], link |-> q[t].link]
      OBVIOUS
    <3>4. d.stored[t][a] \in M!Contents
      BY <2>1 DEF IsDatabase, M!PolicyNames
    <3>5. x \in [column : M!Contents, link : Agents \cup {None}]
      BY <3>2, <3>3, <3>4 DEF M!Rows
    <3>6. [q[t] EXCEPT !.column = d.stored[t][a]] = x
      BY <3>2, <3>3 DEF M!Rows
    <3>7. r[a] = [q EXCEPT ![t] = x]
      BY <1>3, <2>1, <3>1, <3>6
    <3>8. /\ r[a] \in M!Rows
          /\ r[a][t] = x /\ \A u \in M!PolicyTables : u # t => r[a][u] = q[u]
      BY <3>2, <3>5, <3>7 DEF M!Rows
    <3>9. QED
      BY <2>1, <3>1, <3>3, <3>8 DEF M!MigrationsAssumption
  <2>2. CASE ~(d.row[a] # None /\ d.stored[t][a] # None)
    <3>1. r[a] = d.row[a]
      BY <1>3, <2>2
    <3>2. QED
      BY <2>2, <3>1 DEF IsDatabase
  <2>3. QED
    BY <2>1, <2>2
<1>5. r \in [Agents -> M!Rows \cup {None}]
  BY <1>3, <1>4
<1>6. PICK p : p = [d.stored EXCEPT ![t] = M!NoPolicies]
  OBVIOUS
<1>7. /\ p \in [M!PolicyTables -> [M!PolicyNames -> M!Contents \cup {None}]]
      /\ \A u \in M!PolicyTables : u # t => p[u] = d.stored[u]
  <2>1. M!NoPolicies \in [M!PolicyNames -> M!Contents \cup {None}]
    BY DEF M!NoPolicies
  <2>2. QED
    BY <1>6, <2>1 DEF IsDatabase
<1>8. CASE M!Raises(d, s)
  <2>1. One(d, s) = [d EXCEPT !.raised = TRUE]
    BY <1>8 DEF One
  <2>2. QED
    BY <1>1, <2>1 DEF IsDatabase
<1>9. CASE ~M!Raises(d, s)
  <2>1. PICK e : e = [columns |-> d.columns, row |-> r, stored |-> p,
                      format |-> d.format, raised |-> d.raised]
    OBVIOUS
  <2>2. M!Returned(d, t) = [d EXCEPT !.stored[t] = M!NoPolicies, !.row = r]
    BY <1>3 DEF M!Returned
  <2>3. M!Returned(d, t) = e
    BY <1>6, <2>1, <2>2 DEF IsDatabase
  <2>4. One(d, s) = e
    BY <1>2, <1>9, <2>3 DEF One, M!Applied
  <2>5. IsDatabase(e)
    BY <1>5, <1>7, <2>1 DEF IsDatabase
  <2>6. e.row = r /\ e.stored = p /\ SameColumns(d, e) /\ ~e.raised
    BY <2>1 DEF SameColumns
  <2>7. ASSUME NEW a \in Agents, d.row[a] # None, d.stored[t][a] # None
        PROVE  d.row[a][t].link # a /\ M!Source(t) \in d.columns[M!V]
    <3>1. a \in M!StoredNames(d, t)
      BY <2>7 DEF M!StoredNames, M!PolicyNames
    <3>2. M!Source(t) \in d.columns[M!V] /\ a \notin M!LinkedTo(d, t)
      BY <1>2, <1>9, <3>1 DEF M!Raises
    <3>3. a # None
      BY DEF M!MigrationsAssumption
    <3>4. QED
      BY <2>7, <3>2, <3>3 DEF M!LinkedTo
  <2>8. QED
    BY <1>1, <1>4, <1>7, <2>4, <2>5, <2>6, <2>7 DEF ReturnedTo
<1>10. QED
  BY <1>8, <1>9

Reformatted(d, e, f) ==
  /\ IsDatabase(e) /\ ~e.raised
  /\ e.columns = d.columns /\ e.row = d.row /\ e.stored = d.stored /\ e.format = f

LEMMA FormatStep ==
  ASSUME NEW d, IsDatabase(d), ~d.raised
  PROVE  /\ \/ One(d, M!Data("convert", M!A)).raised
            \/ Reformatted(d, One(d, M!Data("convert", M!A)), "policy")
         /\ \/ One(d, M!Data("revert", M!A)).raised
            \/ Reformatted(d, One(d, M!Data("revert", M!A)), "allowlist")
<1>1. ASSUME NEW op, NEW f, NEW s, s = M!Data(op, M!A),
             (op = "convert" /\ f = "policy") \/ (op = "revert" /\ f = "allowlist")
      PROVE  One(d, s).raised \/ Reformatted(d, One(d, s), f)
  <2>1. s.op = op
    BY <1>1 DEF M!Data
  <2>2. CASE M!Raises(d, s)
    <3>1. One(d, s) = [d EXCEPT !.raised = TRUE]
      BY <2>2 DEF One
    <3>2. QED
      BY <3>1 DEF IsDatabase
  <2>3. CASE ~M!Raises(d, s)
    <3>1. PICK e : e = [columns |-> d.columns, row |-> d.row, stored |-> d.stored,
                        format |-> f, raised |-> d.raised]
      OBVIOUS
    <3>2. M!Applied(d, s) = [d EXCEPT !.format = f]
      BY <1>1, <2>1 DEF M!Applied
    <3>3. [d EXCEPT !.format = f] = e
      BY <3>1 DEF IsDatabase
    <3>4. One(d, s) = e
      BY <2>3, <3>2, <3>3 DEF One
    <3>5. QED
      BY <3>1, <3>4 DEF Reformatted, IsDatabase
  <2>4. QED
    BY <2>2, <2>3
<1>2. \/ One(d, M!Data("convert", M!A)).raised
      \/ Reformatted(d, One(d, M!Data("convert", M!A)), "policy")
  BY <1>1
<1>3. \/ One(d, M!Data("revert", M!A)).raised
      \/ Reformatted(d, One(d, M!Data("revert", M!A)), "allowlist")
  BY <1>1
<1>4. QED
  BY <1>2, <1>3

LEMMA RaiseStep ==
  ASSUME NEW d, IsDatabase(d)
  PROVE  One(d, M!Raise).raised
<1>1. M!Raises(d, M!Raise)
  BY DEF M!Raises, M!Raise, M!Data
<1>2. QED
  BY <1>1 DEF One, IsDatabase

\* A command that raised does nothing more.
LEMMA StaysRaised ==
  ASSUME NEW d, NEW s, d.raised
  PROVE  One(d, s) = d
BY DEF One
-----------------------------------------------------------------------------
(* M!Steps that neither touch a policy nor a column that says where policies are *)

Marks ==
  {"agent_id", "ima_whitelist", "allowlist", "mb_refstate", "ima_policy_id", "mb_policy_id",
   "last_successful_attestation"}

Harmless(s) ==
  \/ s = M!Raise
  \/ \E t \in M!Tables : \E cs :
       /\ cs \cap Marks = {} \/ t \in M!PolicyTables
       /\ s \in {M!Add(t, cs), M!Create(t, cs), M!Ensure(t, cs), M!Drop(t, cs)}

HarmlessSteps(steps) ==
  \/ steps = <<>>
  \/ \E s : Harmless(s) /\ steps = <<s>>
  \/ \E s, u : Harmless(s) /\ Harmless(u) /\ steps = <<s, u>>

SameMarks(d, e) ==
  /\ \A c \in Marks : c \in e.columns[M!V] <=> c \in d.columns[M!V]
  /\ "agent_id" \in e.columns[M!R] <=> "agent_id" \in d.columns[M!R]

Alike(d, e) == IsDatabase(e) /\ ~e.raised /\ Others(d, e) /\ e.row = d.row /\ SameMarks(d, e)

LEMMA NothingHeldGoes ==
  ASSUME NEW d, IsDatabase(d), NEW t \in M!Tables, NEW cs, cs \cap Marks = {} \/ t \in M!PolicyTables
  PROVE  M!RowsWithout(d, M!Drop(t, cs)) = d.row
<1>1. PICK s : s = M!Drop(t, cs)
  OBVIOUS
<1>2. s.table = t /\ s.cs = cs
  BY <1>1 DEF M!Drop
<1>3. PICK r : r = M!RowsWithout(d, s)
  OBVIOUS
<1>4. r = [a \in Agents |-> r[a]]
  BY <1>3 DEF M!RowsWithout
<1>5. ASSUME NEW a \in Agents
      PROVE  r[a] = d.row[a]
  <2>1. CASE d.row[a] = None \/ t # M!V
    BY <1>2, <1>3, <2>1 DEF M!RowsWithout
  <2>2. CASE d.row[a] # None /\ t = M!V
    <3>1. d.row[a] \in M!Rows
      BY <2>2 DEF IsDatabase
    <3>2. cs \cap Marks = {}
      BY <2>2 DEF M!PolicyTables, M!V, M!A, M!B
    <3>3. \A p \in M!PolicyTables : M!Source(p) \notin cs /\ M!Reference(p) \notin cs
      BY <3>2 DEF Marks, M!Source, M!Reference
    <3>4. r[a] = [p \in M!PolicyTables |-> [column |-> d.row[a][p].column, link |-> d.row[a][p].link]]
      BY <1>2, <1>3, <2>2, <3>3 DEF M!RowsWithout
    <3>5. \A p \in M!PolicyTables :
            d.row[a][p] = [column |-> d.row[a][p].column, link |-> d.row[a][p].link]
      BY <3>1 DEF M!Rows
    <3>6. d.row[a] = [p \in M!PolicyTables |-> d.row[a][p]]
      BY <3>1 DEF M!Rows
    <3>7. QED
      BY <3>4, <3>5, <3>6
  <2>3. QED
    BY <2>1, <2>2
<1>6. d.row = [a \in Agents |-> d.row[a]]
  BY DEF IsDatabase
<1>7. QED
  BY <1>1, <1>3, <1>4, <1>5, <1>6

LEMMA HarmlessStep ==
  ASSUME NEW d, IsDatabase(d), ~d.raised, NEW s, Harmless(s), M!MigrationsAssumption
  PROVE  One(d, s).raised \/ Alike(d, One(d, s))
<1>1. CASE s = M!Raise
  BY <1>1, RaiseStep
<1>2. CASE s # M!Raise
  <2>0. PICK t \in M!Tables : \E cs :
          /\ cs \cap Marks = {} \/ t \in M!PolicyTables
          /\ s \in {M!Add(t, cs), M!Create(t, cs), M!Ensure(t, cs), M!Drop(t, cs)}
    BY <1>2 DEF Harmless
  <2>1. PICK cs :
          /\ cs \cap Marks = {} \/ t \in M!PolicyTables
          /\ s \in {M!Add(t, cs), M!Create(t, cs), M!Ensure(t, cs), M!Drop(t, cs)}
    BY <2>0
  <2>2. M!V \notin M!PolicyTables /\ M!R \notin M!PolicyTables /\ M!V # M!R
    BY DEF M!PolicyTables, M!V, M!R, M!A, M!B
  <2>3. M!V \in M!Tables /\ M!R \in M!Tables
    BY DEF M!Tables
  <2>4. CASE s \in {M!Add(t, cs), M!Create(t, cs)}
    <3>1. SUFFICES ASSUME ~One(d, s).raised PROVE Alike(d, One(d, s))
      OBVIOUS
    <3>2. PICK e : e = One(d, s)
      OBVIOUS
    <3>3. Came(d, e, t, cs)
      BY <2>4, <3>1, <3>2, AddStep
    <3>4. SameMarks(d, e)
      BY <2>1, <2>2, <2>3, <3>3 DEF SameMarks, Came, Marks
    <3>5. QED
      BY <3>2, <3>3, <3>4 DEF Alike, Came
  <2>5. CASE s = M!Drop(t, cs)
    <3>1. SUFFICES ASSUME ~One(d, s).raised PROVE Alike(d, One(d, s))
      OBVIOUS
    <3>2. PICK e : e = One(d, s)
      OBVIOUS
    <3>3. Gone(d, e, t, cs)
      BY <2>5, <3>1, <3>2, DropStep
    <3>4. SameMarks(d, e)
      BY <2>1, <2>2, <2>3, <3>3 DEF SameMarks, Gone, Marks
    <3>5. e.row = d.row
      BY <2>1, <3>3, NothingHeldGoes DEF Gone
    <3>6. QED
      BY <3>2, <3>3, <3>4, <3>5 DEF Alike, Gone
  <2>6. CASE s = M!Ensure(t, cs)
    <3>1. PICK e : e = One(d, s)
      OBVIOUS
    <3>2. e = d \/ Came(d, e, t, cs)
      BY <2>6, <3>1, EnsureStep
    <3>3. SameMarks(d, e)
      BY <2>1, <2>2, <2>3, <3>2 DEF SameMarks, Came, Marks
    <3>4. QED
      BY <3>1, <3>2, <3>3 DEF Alike, Came, Others
  <2>7. QED
    BY <2>1, <2>4, <2>5, <2>6
<1>3. QED
  BY <1>1, <1>2

LEMMA HarmlessRun ==
  ASSUME NEW d, IsDatabase(d), ~d.raised, NEW steps, HarmlessSteps(steps), M!MigrationsAssumption
  PROVE  M!RunSteps(d, steps).raised \/ Alike(d, M!RunSteps(d, steps))
<1>1. CASE steps = <<>>
  <2>1. M!RunSteps(d, steps) = d
    BY <1>1, RunOfNone
  <2>2. QED
    BY <2>1 DEF Alike, Others, SameMarks
<1>2. ASSUME NEW s, Harmless(s), steps = <<s>>
      PROVE  M!RunSteps(d, steps).raised \/ Alike(d, M!RunSteps(d, steps))
  BY <1>2, RunOfOne, HarmlessStep
<1>3. ASSUME NEW s, NEW u, Harmless(s), Harmless(u), steps = <<s, u>>
      PROVE  M!RunSteps(d, steps).raised \/ Alike(d, M!RunSteps(d, steps))
  <2>1. PICK e : e = One(d, s)
    OBVIOUS
  <2>2. M!RunSteps(d, steps) = One(e, u)
    BY <1>3, <2>1, RunOfTwo
  <2>3. CASE e.raised
    BY <2>2, <2>3, StaysRaised
  <2>4. CASE ~e.raised
    <3>1. Alike(d, e)
      BY <1>3, <2>1, <2>4, HarmlessStep
    <3>2. One(e, u).raised \/ Alike(e, One(e, u))
      BY <1>3, <2>4, <3>1, HarmlessStep DEF Alike
    <3>3. QED
      BY <2>2, <3>1, <3>2 DEF Alike, Others, SameMarks
  <2>5. QED
    BY <2>3, <2>4
<1>4. QED
  BY <1>1, <1>2, <1>3 DEF HarmlessSteps

\* The revisions with other steps, on the way up and on the way down.
SpecialUp   == {1, 2, 6, 20, 21, 26, 27, 32, 33}
SpecialDown == {1, 2, 6, 7, 20, 21, 26, 27, 31, 32}

LEMMA RevisionCount == M!Last = 35
BY DEF M!Last, M!Revisions

LEMMA ColumnStepsAreHarmless ==
  ASSUME NEW t \in M!Tables, NEW cs, cs \cap Marks = {} \/ t \in M!PolicyTables
  PROVE  /\ Harmless(M!Add(t, cs)) /\ Harmless(M!Create(t, cs)) /\ Harmless(M!Drop(t, cs))
         /\ HarmlessSteps(<<M!Ensure(t, cs)>>)
         /\ HarmlessSteps(<<M!Add(t, cs)>>) /\ HarmlessSteps(<<M!Create(t, cs)>>)
         /\ HarmlessSteps(<<M!Drop(t, cs)>>) /\ HarmlessSteps(<<>>) /\ HarmlessSteps(<<M!Raise>>)
         /\ HarmlessSteps(M!Adds(t, cs).up) /\ HarmlessSteps(M!Adds(t, cs).down)
<1>1. /\ Harmless(M!Add(t, cs)) /\ Harmless(M!Create(t, cs)) /\ Harmless(M!Ensure(t, cs))
      /\ Harmless(M!Drop(t, cs)) /\ Harmless(M!Raise)
  BY DEF Harmless
<1>2. /\ HarmlessSteps(<<M!Add(t, cs)>>) /\ HarmlessSteps(<<M!Create(t, cs)>>)
      /\ HarmlessSteps(<<M!Ensure(t, cs)>>)
      /\ HarmlessSteps(<<M!Drop(t, cs)>>) /\ HarmlessSteps(<<>>) /\ HarmlessSteps(<<M!Raise>>)
  BY <1>1 DEF HarmlessSteps
<1>3. M!Adds(t, cs).up = <<M!Add(t, cs)>> /\ M!Adds(t, cs).down = <<M!Drop(t, cs)>>
  BY DEF M!Adds, M!Steps
<1>4. QED
  BY <1>1, <1>2, <1>3

LEMMA TwoAreHarmless ==
  ASSUME NEW s, NEW u, Harmless(s), Harmless(u)
  PROVE  HarmlessSteps(<<s, u>>)
BY DEF HarmlessSteps

LEMMA Harmless_8da20383f6e1 == HarmlessSteps(M!Rev_8da20383f6e1.up) /\
      HarmlessSteps(M!Rev_8da20383f6e1.down)
<1>1. M!A \in M!Tables /\ M!A \in M!PolicyTables
  BY DEF M!Tables, M!PolicyTables
<1>2. M!Rev_8da20383f6e1 = [up |-> <<>>, down |-> <<>>]
  BY DEF M!Rev_8da20383f6e1, M!Retypes, M!Steps
<1>3. QED
  BY <1>1, <1>2, ColumnStepsAreHarmless

LEMMA Harmless_a7a64155ab3a == HarmlessSteps(M!Rev_a7a64155ab3a.up) /\
      HarmlessSteps(M!Rev_a7a64155ab3a.down)
<1>1. M!V \in M!Tables /\ ({"ima_sign_verification_keys"} \cap Marks = {} \/ M!V \in M!PolicyTables)
  BY DEF M!Tables, M!PolicyTables, Marks
<1>2. QED
  BY <1>1, ColumnStepsAreHarmless DEF M!Rev_a7a64155ab3a

LEMMA Harmless_cc2630851a1f == HarmlessSteps(M!Rev_cc2630851a1f.up) /\
      HarmlessSteps(M!Rev_cc2630851a1f.down)
<1>1. M!R \in M!Tables /\ ({"aik", "ek"} \cap Marks = {} \/ M!R \in M!PolicyTables)
  BY DEF M!Tables, M!PolicyTables, Marks
<1>2. M!R \in M!Tables /\ ({"aik_tpm", "ek_tpm"} \cap Marks = {} \/ M!R \in M!PolicyTables)
  BY DEF M!Tables, M!PolicyTables, Marks
<1>3. Harmless(M!Drop(M!R, {"aik", "ek"})) /\ Harmless(M!Add(M!R, {"aik_tpm", "ek_tpm"}))
  BY <1>1, <1>2, ColumnStepsAreHarmless
<1>4. HarmlessSteps(<<M!Drop(M!R, {"aik", "ek"}), M!Add(M!R, {"aik_tpm", "ek_tpm"})>>)
  BY <1>3, TwoAreHarmless
<1>5. M!Rev_cc2630851a1f.up = <<M!Drop(M!R, {"aik", "ek"}), M!Add(M!R, {"aik_tpm", "ek_tpm"})>>
  BY DEF M!Rev_cc2630851a1f, M!Steps
<1>6. Harmless(M!Add(M!R, {"aik", "ek"})) /\ Harmless(M!Drop(M!R, {"aik_tpm", "ek_tpm"}))
  BY <1>1, <1>2, ColumnStepsAreHarmless
<1>7. HarmlessSteps(<<M!Add(M!R, {"aik", "ek"}), M!Drop(M!R, {"aik_tpm", "ek_tpm"})>>)
  BY <1>6, TwoAreHarmless
<1>8. M!Rev_cc2630851a1f.down = <<M!Add(M!R, {"aik", "ek"}), M!Drop(M!R, {"aik_tpm", "ek_tpm"})>>
  BY DEF M!Rev_cc2630851a1f, M!Steps
<1>9. QED
  BY <1>4, <1>5, <1>7, <1>8

LEMMA Harmless_eb869a77abd1 == HarmlessSteps(M!Rev_eb869a77abd1.up)
<1>1. M!A \in M!Tables /\ ({"id", "name", "tpm_policy", "vtpm_policy", "ima_policy"} \cap Marks = {}
      \/ M!A \in M!PolicyTables)
  BY DEF M!Tables, M!PolicyTables, Marks
<1>2. HarmlessSteps(<<M!Create(M!A, {"id", "name", "tpm_policy", "vtpm_policy", "ima_policy"})>>)
  BY <1>1, ColumnStepsAreHarmless
<1>3. M!Rev_eb869a77abd1.up = <<M!Create(M!A, {"id", "name", "tpm_policy", "vtpm_policy", "ima_policy"})>>
  BY DEF M!Rev_eb869a77abd1, M!Steps
<1>4. QED
  BY <1>2, <1>3

LEMMA Harmless_b4d024197413 == HarmlessSteps(M!Rev_b4d024197413.up) /\
      HarmlessSteps(M!Rev_b4d024197413.down)
<1>1. M!V \in M!Tables /\ ({"verifier_id", "verifier_ip", "verifier_port"} \cap Marks = {} \/ M!V \in
      M!PolicyTables)
  BY DEF M!Tables, M!PolicyTables, Marks
<1>2. QED
  BY <1>1, ColumnStepsAreHarmless DEF M!Rev_b4d024197413

LEMMA Harmless_f82c4252bc4f == HarmlessSteps(M!Rev_f82c4252bc4f.up) /\
      HarmlessSteps(M!Rev_f82c4252bc4f.down)
<1>1. M!R \in M!Tables /\ ({"ip", "port"} \cap Marks = {} \/ M!R \in M!PolicyTables)
  BY DEF M!Tables, M!PolicyTables, Marks
<1>2. QED
  BY <1>1, ColumnStepsAreHarmless DEF M!Rev_f82c4252bc4f

LEMMA Harmless_7d5db1a6ffb0 == HarmlessSteps(M!Rev_7d5db1a6ffb0.up) /\
      HarmlessSteps(M!Rev_7d5db1a6ffb0.down)
<1>1. M!V \in M!Tables /\ ({"boottime", "ima_pcrs", "pcr10", "next_ima_ml_entry"} \cap Marks = {} \/ M!V
      \in M!PolicyTables)
  BY DEF M!Tables, M!PolicyTables, Marks
<1>2. QED
  BY <1>1, ColumnStepsAreHarmless DEF M!Rev_7d5db1a6ffb0

LEMMA Harmless_f35cdd35eb83 == HarmlessSteps(M!Rev_f35cdd35eb83.up) /\
      HarmlessSteps(M!Rev_f35cdd35eb83.down)
<1>1. M!A \in M!Tables /\ M!A \in M!PolicyTables
  BY DEF M!Tables, M!PolicyTables
<1>2. M!Rev_f35cdd35eb83 = [up |-> <<>>, down |-> <<>>]
  BY DEF M!Rev_f35cdd35eb83, M!Retypes, M!Steps
<1>3. QED
  BY <1>1, <1>2, ColumnStepsAreHarmless

LEMMA Harmless_257fe0f0c039 == HarmlessSteps(M!Rev_257fe0f0c039.up) /\
      HarmlessSteps(M!Rev_257fe0f0c039.down)
<1>1. M!V \in M!Tables /\ ({"severity_level", "last_event_id"} \cap Marks = {} \/ M!V \in M!PolicyTables)
  BY DEF M!Tables, M!PolicyTables, Marks
<1>2. HarmlessSteps(<<M!Add(M!V, {"severity_level", "last_event_id"})>>)
  BY <1>1, ColumnStepsAreHarmless
<1>3. M!Rev_257fe0f0c039.up = <<M!Add(M!V, {"severity_level", "last_event_id"})>>
  BY DEF M!Rev_257fe0f0c039, M!Steps
<1>4. HarmlessSteps(<<M!Raise>>)
  BY <1>1, ColumnStepsAreHarmless
<1>5. M!Rev_257fe0f0c039.down = <<M!Raise>>
  BY DEF M!Rev_257fe0f0c039, M!Steps
<1>6. QED
  BY <1>2, <1>3, <1>4, <1>5

LEMMA Harmless_c3842cc9ee69 == HarmlessSteps(M!Rev_c3842cc9ee69.up) /\
      HarmlessSteps(M!Rev_c3842cc9ee69.down)
<1>1. M!V \in M!Tables /\ ({"learned_ima_keyrings"} \cap Marks = {} \/ M!V \in M!PolicyTables)
  BY DEF M!Tables, M!PolicyTables, Marks
<1>2. QED
  BY <1>1, ColumnStepsAreHarmless DEF M!Rev_c3842cc9ee69

LEMMA Harmless_a79c27ec1054 == HarmlessSteps(M!Rev_a79c27ec1054.up) /\
      HarmlessSteps(M!Rev_a79c27ec1054.down)
<1>1. M!R \in M!Tables /\ ({"mtls_cert"} \cap Marks = {} \/ M!R \in M!PolicyTables)
  BY DEF M!Tables, M!PolicyTables, Marks
<1>2. QED
  BY <1>1, ColumnStepsAreHarmless DEF M!Rev_a79c27ec1054

LEMMA Harmless_9169f80345ed == HarmlessSteps(M!Rev_9169f80345ed.up) /\
      HarmlessSteps(M!Rev_9169f80345ed.down)
<1>1. M!V \in M!Tables /\ ({"supported_version"} \cap Marks = {} \/ M!V \in M!PolicyTables)
  BY DEF M!Tables, M!PolicyTables, Marks
<1>2. QED
  BY <1>1, ColumnStepsAreHarmless DEF M!Rev_9169f80345ed

LEMMA Harmless_63c30820fdc1 == HarmlessSteps(M!Rev_63c30820fdc1.up) /\
      HarmlessSteps(M!Rev_63c30820fdc1.down)
<1>1. M!V \in M!Tables /\ ({"ak_tpm", "mtls_cert"} \cap Marks = {} \/ M!V \in M!PolicyTables)
  BY DEF M!Tables, M!PolicyTables, Marks
<1>2. QED
  BY <1>1, ColumnStepsAreHarmless DEF M!Rev_63c30820fdc1

LEMMA Harmless_1ac1513ef2a1 == HarmlessSteps(M!Rev_1ac1513ef2a1.up) /\
      HarmlessSteps(M!Rev_1ac1513ef2a1.down)
<1>1. M!A \in M!Tables /\ M!A \in M!PolicyTables
  BY DEF M!Tables, M!PolicyTables
<1>2. M!Rev_1ac1513ef2a1 = [up |-> <<>>, down |-> <<>>]
  BY DEF M!Rev_1ac1513ef2a1, M!Retypes, M!Steps
<1>3. QED
  BY <1>1, <1>2, ColumnStepsAreHarmless

LEMMA Harmless_bc3b6b551b0a == HarmlessSteps(M!Rev_bc3b6b551b0a.up) /\
      HarmlessSteps(M!Rev_bc3b6b551b0a.down)
<1>1. M!V \in M!Tables /\ ({"vtpm_policy"} \cap Marks = {} \/ M!V \in M!PolicyTables)
  BY DEF M!Tables, M!PolicyTables, Marks
<1>2. M!A \in M!Tables /\ ({"vtpm_policy"} \cap Marks = {} \/ M!A \in M!PolicyTables)
  BY DEF M!Tables, M!PolicyTables, Marks
<1>3. Harmless(M!Drop(M!V, {"vtpm_policy"})) /\ Harmless(M!Drop(M!A, {"vtpm_policy"}))
  BY <1>1, <1>2, ColumnStepsAreHarmless
<1>4. HarmlessSteps(<<M!Drop(M!V, {"vtpm_policy"}), M!Drop(M!A, {"vtpm_policy"})>>)
  BY <1>3, TwoAreHarmless
<1>5. M!Rev_bc3b6b551b0a.up = <<M!Drop(M!V, {"vtpm_policy"}), M!Drop(M!A, {"vtpm_policy"})>>
  BY DEF M!Rev_bc3b6b551b0a, M!Steps
<1>6. HarmlessSteps(<<M!Raise>>)
  BY <1>1, <1>2, ColumnStepsAreHarmless
<1>7. M!Rev_bc3b6b551b0a.down = <<M!Raise>>
  BY DEF M!Rev_bc3b6b551b0a, M!Steps
<1>8. QED
  BY <1>4, <1>5, <1>6, <1>7

LEMMA Harmless_bf48e0c4751d == HarmlessSteps(M!Rev_bf48e0c4751d.up) /\
      HarmlessSteps(M!Rev_bf48e0c4751d.down)
<1>1. M!V \in M!Tables /\ ({"attestation_count"} \cap Marks = {} \/ M!V \in M!PolicyTables)
  BY DEF M!Tables, M!PolicyTables, Marks
<1>2. QED
  BY <1>1, ColumnStepsAreHarmless DEF M!Rev_bf48e0c4751d

LEMMA Harmless_4089e1c79be9 == HarmlessSteps(M!Rev_4089e1c79be9.up) /\
      HarmlessSteps(M!Rev_4089e1c79be9.down)
<1>1. M!V \in M!Tables /\ ({"tpm_clockinfo"} \cap Marks = {} \/ M!V \in M!PolicyTables)
  BY DEF M!Tables, M!PolicyTables, Marks
<1>2. QED
  BY <1>1, ColumnStepsAreHarmless DEF M!Rev_4089e1c79be9

LEMMA Harmless_a09cc94177f0 == HarmlessSteps(M!Rev_a09cc94177f0.up) /\
      HarmlessSteps(M!Rev_a09cc94177f0.down)
<1>1. M!V \in M!Tables /\ ({"last_received_quote"} \cap Marks = {} \/ M!V \in M!PolicyTables)
  BY DEF M!Tables, M!PolicyTables, Marks
<1>2. QED
  BY <1>1, ColumnStepsAreHarmless DEF M!Rev_a09cc94177f0

LEMMA Harmless_2fbc0fb8fa4d == HarmlessSteps(M!Rev_2fbc0fb8fa4d.up) /\
      HarmlessSteps(M!Rev_2fbc0fb8fa4d.down)
<1>1. M!A \in M!Tables /\ ({"checksum"} \cap Marks = {} \/ M!A \in M!PolicyTables)
  BY DEF M!Tables, M!PolicyTables, Marks
<1>2. QED
  BY <1>1, ColumnStepsAreHarmless DEF M!Rev_2fbc0fb8fa4d

LEMMA Harmless_039322ea079b == HarmlessSteps(M!Rev_039322ea079b.up) /\
      HarmlessSteps(M!Rev_039322ea079b.down)
<1>1. M!A \in M!Tables /\ ({"generator"} \cap Marks = {} \/ M!A \in M!PolicyTables)
  BY DEF M!Tables, M!PolicyTables, Marks
<1>2. QED
  BY <1>1, ColumnStepsAreHarmless DEF M!Rev_039322ea079b

LEMMA Harmless_21b5cb88fcdb == HarmlessSteps(M!Rev_21b5cb88fcdb.up) /\
      HarmlessSteps(M!Rev_21b5cb88fcdb.down)
<1>1. M!R \in M!Tables /\ ({"iak_tpm", "idevid_tpm"} \cap Marks = {} \/ M!R \in M!PolicyTables)
  BY DEF M!Tables, M!PolicyTables, Marks
<1>2. QED
  BY <1>1, ColumnStepsAreHarmless DEF M!Rev_21b5cb88fcdb

LEMMA Harmless_00766b7fd0c5 == HarmlessSteps(M!Rev_00766b7fd0c5.up) /\
      HarmlessSteps(M!Rev_00766b7fd0c5.down)
<1>1. M!R \in M!Tables /\ ({"iak_cert", "idevid_cert"} \cap Marks = {} \/ M!R \in M!PolicyTables)
  BY DEF M!Tables, M!PolicyTables, Marks
<1>2. QED
  BY <1>1, ColumnStepsAreHarmless DEF M!Rev_00766b7fd0c5

LEMMA Harmless_160f932fde5b == HarmlessSteps(M!Rev_160f932fde5b.up) /\
      HarmlessSteps(M!Rev_160f932fde5b.down)
<1>1. M!A \in M!Tables /\ M!A \in M!PolicyTables
  BY DEF M!Tables, M!PolicyTables
<1>2. M!Rev_160f932fde5b = [up |-> <<>>, down |-> <<>>]
  BY DEF M!Rev_160f932fde5b, M!Retypes, M!Steps
<1>3. QED
  BY <1>1, <1>2, ColumnStepsAreHarmless

LEMMA Harmless_32902c0a8d90 == HarmlessSteps(M!Rev_32902c0a8d90.up)
<1>1. M!B \in M!Tables /\ ({"id", "name", "mb_policy"} \cap Marks = {} \/ M!B \in M!PolicyTables)
  BY DEF M!Tables, M!PolicyTables, Marks
<1>2. HarmlessSteps(<<M!Ensure(M!B, {"id", "name", "mb_policy"})>>)
  BY <1>1, ColumnStepsAreHarmless
<1>3. M!Rev_32902c0a8d90.up = <<M!Ensure(M!B, {"id", "name", "mb_policy"})>>
  BY DEF M!Rev_32902c0a8d90, M!Steps
<1>4. QED
  BY <1>2, <1>3

LEMMA Harmless_9d2f6fab52b1 == HarmlessSteps(M!Rev_9d2f6fab52b1.down)
<1>1. M!A \in M!Tables /\ M!A \in M!PolicyTables
  BY DEF M!Tables, M!PolicyTables
<1>2. HarmlessSteps(<<>>)
  BY <1>1, ColumnStepsAreHarmless
<1>3. M!Rev_9d2f6fab52b1.down = <<>>
  BY DEF M!Rev_9d2f6fab52b1, M!Steps
<1>4. QED
  BY <1>2, <1>3

LEMMA Harmless_330024be7bef == HarmlessSteps(M!Rev_330024be7bef.up) /\
      HarmlessSteps(M!Rev_330024be7bef.down)
<1>1. M!A \in M!Tables /\ M!A \in M!PolicyTables
  BY DEF M!Tables, M!PolicyTables
<1>2. M!Rev_330024be7bef = [up |-> <<>>, down |-> <<>>]
  BY DEF M!Rev_330024be7bef, M!Retypes, M!Steps
<1>3. QED
  BY <1>1, <1>2, ColumnStepsAreHarmless

LEMMA Harmless_57b24ee21dfa == HarmlessSteps(M!Rev_57b24ee21dfa.up) /\
      HarmlessSteps(M!Rev_57b24ee21dfa.down)
<1>1. M!A \in M!Tables /\ M!A \in M!PolicyTables
  BY DEF M!Tables, M!PolicyTables
<1>2. M!Rev_57b24ee21dfa = [up |-> <<>>, down |-> <<>>]
  BY DEF M!Rev_57b24ee21dfa, M!Retypes, M!Steps
<1>3. QED
  BY <1>1, <1>2, ColumnStepsAreHarmless

LEMMA HarmlessUp ==
  ASSUME NEW i \in 1..35, i \notin SpecialUp
  PROVE  HarmlessSteps(M!Revisions[i].up)
<1>1. HarmlessSteps(M!Revisions[3].up)
  BY Harmless_8da20383f6e1 DEF M!Revisions
<1>2. HarmlessSteps(M!Revisions[4].up)
  BY Harmless_a7a64155ab3a DEF M!Revisions
<1>3. HarmlessSteps(M!Revisions[5].up)
  BY Harmless_cc2630851a1f DEF M!Revisions
<1>4. HarmlessSteps(M!Revisions[7].up)
  BY Harmless_eb869a77abd1 DEF M!Revisions
<1>5. HarmlessSteps(M!Revisions[8].up)
  BY Harmless_b4d024197413 DEF M!Revisions
<1>6. HarmlessSteps(M!Revisions[9].up)
  BY Harmless_f82c4252bc4f DEF M!Revisions
<1>7. HarmlessSteps(M!Revisions[10].up)
  BY Harmless_7d5db1a6ffb0 DEF M!Revisions
<1>8. HarmlessSteps(M!Revisions[11].up)
  BY Harmless_f35cdd35eb83 DEF M!Revisions
<1>9. HarmlessSteps(M!Revisions[12].up)
  BY Harmless_257fe0f0c039 DEF M!Revisions
<1>10. HarmlessSteps(M!Revisions[13].up)
  BY Harmless_c3842cc9ee69 DEF M!Revisions
<1>11. HarmlessSteps(M!Revisions[14].up)
  BY Harmless_a79c27ec1054 DEF M!Revisions
<1>12. HarmlessSteps(M!Revisions[15].up)
  BY Harmless_9169f80345ed DEF M!Revisions
<1>13. HarmlessSteps(M!Revisions[16].up)
  BY Harmless_63c30820fdc1 DEF M!Revisions
<1>14. HarmlessSteps(M!Revisions[17].up)
  BY Harmless_1ac1513ef2a1 DEF M!Revisions
<1>15. HarmlessSteps(M!Revisions[18].up)
  BY Harmless_bc3b6b551b0a DEF M!Revisions
<1>16. HarmlessSteps(M!Revisions[19].up)
  BY Harmless_bf48e0c4751d DEF M!Revisions
<1>17. HarmlessSteps(M!Revisions[22].up)
  BY Harmless_4089e1c79be9 DEF M!Revisions
<1>18. HarmlessSteps(M!Revisions[23].up)
  BY Harmless_a09cc94177f0 DEF M!Revisions
<1>19. HarmlessSteps(M!Revisions[24].up)
  BY Harmless_2fbc0fb8fa4d DEF M!Revisions
<1>20. HarmlessSteps(M!Revisions[25].up)
  BY Harmless_039322ea079b DEF M!Revisions
<1>21. HarmlessSteps(M!Revisions[28].up)
  BY Harmless_21b5cb88fcdb DEF M!Revisions
<1>22. HarmlessSteps(M!Revisions[29].up)
  BY Harmless_00766b7fd0c5 DEF M!Revisions
<1>23. HarmlessSteps(M!Revisions[30].up)
  BY Harmless_160f932fde5b DEF M!Revisions
<1>24. HarmlessSteps(M!Revisions[31].up)
  BY Harmless_32902c0a8d90 DEF M!Revisions
<1>25. HarmlessSteps(M!Revisions[34].up)
  BY Harmless_330024be7bef DEF M!Revisions
<1>26. HarmlessSteps(M!Revisions[35].up)
  BY Harmless_57b24ee21dfa DEF M!Revisions
<1>27. i \in {3, 4, 5, 7, 8, 9, 10, 11, 12, 13, 14, 15, 16, 17, 18, 19, 22, 23, 24, 25, 28, 29,
      30, 31, 34, 35}
  BY DEF SpecialUp
<1>28. QED
  BY <1>1, <1>2, <1>3, <1>4, <1>5, <1>6, <1>7, <1>8, <1>9, <1>10, <1>11, <1>12, <1>13, <1>14,
     <1>15, <1>16, <1>17, <1>18, <1>19, <1>20, <1>21, <1>22, <1>23, <1>24, <1>25, <1>26, <1>27

LEMMA HarmlessDown ==
  ASSUME NEW i \in 1..35, i \notin SpecialDown
  PROVE  HarmlessSteps(M!Revisions[i].down)
<1>1. HarmlessSteps(M!Revisions[3].down)
  BY Harmless_8da20383f6e1 DEF M!Revisions
<1>2. HarmlessSteps(M!Revisions[4].down)
  BY Harmless_a7a64155ab3a DEF M!Revisions
<1>3. HarmlessSteps(M!Revisions[5].down)
  BY Harmless_cc2630851a1f DEF M!Revisions
<1>4. HarmlessSteps(M!Revisions[8].down)
  BY Harmless_b4d024197413 DEF M!Revisions
<1>5. HarmlessSteps(M!Revisions[9].down)
  BY Harmless_f82c4252bc4f DEF M!Revisions
<1>6. HarmlessSteps(M!Revisions[10].down)
  BY Harmless_7d5db1a6ffb0 DEF M!Revisions
<1>7. HarmlessSteps(M!Revisions[11].down)
  BY Harmless_f35cdd35eb83 DEF M!Revisions
<1>8. HarmlessSteps(M!Revisions[12].down)
  BY Harmless_257fe0f0c039 DEF M!Revisions
<1>9. HarmlessSteps(M!Revisions[13].down)
  BY Harmless_c3842cc9ee69 DEF M!Revisions
<1>10. HarmlessSteps(M!Revisions[14].down)
  BY Harmless_a79c27ec1054 DEF M!Revisions
<1>11. HarmlessSteps(M!Revisions[15].down)
  BY Harmless_9169f80345ed DEF M!Revisions
<1>12. HarmlessSteps(M!Revisions[16].down)
  BY Harmless_63c30820fdc1 DEF M!Revisions
<1>13. HarmlessSteps(M!Revisions[17].down)
  BY Harmless_1ac1513ef2a1 DEF M!Revisions
<1>14. HarmlessSteps(M!Revisions[18].down)
  BY Harmless_bc3b6b551b0a DEF M!Revisions
<1>15. HarmlessSteps(M!Revisions[19].down)
  BY Harmless_bf48e0c4751d DEF M!Revisions
<1>16. HarmlessSteps(M!Revisions[22].down)
  BY Harmless_4089e1c79be9 DEF M!Revisions
<1>17. HarmlessSteps(M!Revisions[23].down)
  BY Harmless_a09cc94177f0 DEF M!Revisions
<1>18. HarmlessSteps(M!Revisions[24].down)
  BY Harmless_2fbc0fb8fa4d DEF M!Revisions
<1>19. HarmlessSteps(M!Revisions[25].down)
  BY Harmless_039322ea079b DEF M!Revisions
<1>20. HarmlessSteps(M!Revisions[28].down)
  BY Harmless_21b5cb88fcdb DEF M!Revisions
<1>21. HarmlessSteps(M!Revisions[29].down)
  BY Harmless_00766b7fd0c5 DEF M!Revisions
<1>22. HarmlessSteps(M!Revisions[30].down)
  BY Harmless_160f932fde5b DEF M!Revisions
<1>23. HarmlessSteps(M!Revisions[33].down)
  BY Harmless_9d2f6fab52b1 DEF M!Revisions
<1>24. HarmlessSteps(M!Revisions[34].down)
  BY Harmless_330024be7bef DEF M!Revisions
<1>25. HarmlessSteps(M!Revisions[35].down)
  BY Harmless_57b24ee21dfa DEF M!Revisions
<1>26. i \in {3, 4, 5, 8, 9, 10, 11, 12, 13, 14, 15, 16, 17, 18, 19, 22, 23, 24, 25, 28, 29, 30,
      33, 34, 35}
  BY DEF SpecialDown
<1>27. QED
  BY <1>1, <1>2, <1>3, <1>4, <1>5, <1>6, <1>7, <1>8, <1>9, <1>10, <1>11, <1>12, <1>13, <1>14,
     <1>15, <1>16, <1>17, <1>18, <1>19, <1>20, <1>21, <1>22, <1>23, <1>24, <1>25, <1>26
-----------------------------------------------------------------------------
(* The inductive invariant: which revisions have the columns that hold policies or
   refer to them, and where each agent's policies are from which revision on. *)

ColumnsAt(d, i) ==
  /\ "agent_id" \in d.columns[M!V] <=> i > 0
  /\ "agent_id" \in d.columns[M!R] <=> i > 0
  /\ i = 0 => d.columns[M!V] = {} /\ d.columns[M!R] = {}
  /\ "mb_refstate" \in d.columns[M!V] <=> i \in 6..31
  /\ "ima_policy_id" \in d.columns[M!V] <=> i >= 20
  /\ "mb_policy_id" \in d.columns[M!V] <=> i >= 32
  /\ "last_successful_attestation" \in d.columns[M!V] <=> i >= 27

\* The policy of agent a in table t, of which it was given x: in its row before
\* revision n, referred to from revision n + 1 on, in between either.
HeldAt(d, a, t, x, n, i) ==
  /\ i < n => d.row[a][t].link = None /\ d.row[a][t].column = x
  /\ i = n => d.row[a][t].link \in {None, a} /\ d.stored[t][a] = x
  /\ i > n => d.row[a][t].link = a /\ d.stored[t][a] = x

RowAt(d, a, g, i) ==
  /\ i > 0
  /\ i = 1 => "ima_whitelist" \in d.columns[M!V]
  /\ i \in 2..19 => "allowlist" \in d.columns[M!V]
  /\ HeldAt(d, a, M!A, g[M!A], 20, i)
  /\ HeldAt(d, a, M!B, g[M!B], 32, i)
  /\ i < 6 => g[M!B] = Null

RowsAt(d, i, g) == \A a \in Agents : d.row[a] # None => RowAt(d, a, g[a], i)

FormatAt(d, i) == d.format \in {"allowlist", "policy"} /\ (i >= 26 => d.format = "policy")

GivenOK(d, g) ==
  /\ g \in [Agents -> [M!PolicyTables -> M!Contents] \cup {None}]
  /\ \A a \in Agents : d.row[a] = None <=> g[a] = None

At(d, i, g) ==
  /\ IsDatabase(d) /\ ~d.raised
  /\ ColumnsAt(d, i) /\ RowsAt(d, i, g) /\ FormatAt(d, i) /\ GivenOK(d, g)

Inductive == rev \in 0..M!Last /\ failed \in BOOLEAN /\ At(M!Database, rev, given)

KeptAll(e) == [a \in Agents |-> M!Kept(e, a)]

\* A row that is as it should be with what its agent was given keeps all of it.
LEMMA KeepsGiven ==
  ASSUME NEW e, NEW j \in 0..35, ColumnsAt(e, j), RowsAt(e, j, given), M!MigrationsAssumption,
         \A a \in Agents : e.row[a] # None => given[a] \in [M!PolicyTables -> M!Contents]
  PROVE  \A a \in Agents : e.row[a] # None => M!Kept(e, a) = given[a]
<1> SUFFICES ASSUME NEW a \in Agents, e.row[a] # None
             PROVE  M!Kept(e, a) = given[a]
  OBVIOUS
<1>1. RowAt(e, a, given[a], j)
  BY DEF RowsAt
<1>2. M!Holding(M!A) \cap e.columns[M!V] # {}
  <2>1. M!Holding(M!A) = {"allowlist", "ima_policy_id", "ima_whitelist"}
    BY DEF M!Holding, M!Source, M!Reference
  <2>2. j = 1 \/ j \in 2..19 \/ j >= 20
    BY <1>1 DEF RowAt
  <2>3. QED
    BY <1>1, <2>1, <2>2 DEF RowAt, ColumnsAt
<1>3. M!Holding(M!B) \cap e.columns[M!V] # {} \/ given[a][M!B] = Null
  <2>1. M!Holding(M!B) = {"mb_refstate", "mb_policy_id"}
    BY DEF M!Holding, M!Source, M!Reference, M!A, M!B
  <2>2. j < 6 \/ j \in 6..31 \/ j >= 32
    OBVIOUS
  <2>3. QED
    BY <1>1, <2>1, <2>2 DEF RowAt, ColumnsAt
<1>4. PICK k : k = [t \in M!PolicyTables |-> IF M!Holding(t) \cap e.columns[M!V] = {} THEN Null ELSE given[a][t]]
  OBVIOUS
<1>5. \A t \in M!PolicyTables : k[t] = given[a][t]
  BY <1>2, <1>3, <1>4 DEF M!PolicyTables
<1>6. k = given[a]
  BY <1>4, <1>5
<1>7. QED
  BY <1>4, <1>6 DEF M!Kept

LEMMA Carried ==
  ASSUME NEW e, NEW j \in 0..35, IsDatabase(e), ~e.raised, ColumnsAt(e, j),
         RowsAt(e, j, given), FormatAt(e, j), M!MigrationsAssumption,
         given \in [Agents -> [M!PolicyTables -> M!Contents] \cup {None}],
         \A a \in Agents : e.row[a] # None => given[a] # None
  PROVE  At(e, j, KeptAll(e))
<1>1. \A a \in Agents : e.row[a] # None => given[a] \in [M!PolicyTables -> M!Contents]
  OBVIOUS
<1>2. \A a \in Agents : e.row[a] # None => M!Kept(e, a) = given[a]
  BY <1>1, KeepsGiven
<1>3. \A a \in Agents : e.row[a] = None => M!Kept(e, a) = None
  BY DEF M!Kept
<1>4. PICK h : h = KeptAll(e)
  OBVIOUS
<1>5. \A a \in Agents : h[a] = IF e.row[a] = None THEN None ELSE given[a]
  BY <1>2, <1>3, <1>4 DEF KeptAll
<1>6. h \in [Agents -> [M!PolicyTables -> M!Contents] \cup {None}]
  BY <1>1, <1>4, <1>5 DEF KeptAll
<1>7. GivenOK(e, h)
  BY <1>5, <1>6 DEF GivenOK
<1>8. RowsAt(e, j, h)
  BY <1>5 DEF RowsAt
<1>9. QED
  BY <1>4, <1>7, <1>8 DEF At
-----------------------------------------------------------------------------
(* Each revision takes the invariant to the next or the one before *)

LEMMA TablesDiffer ==
  /\ {M!V, M!R, M!A, M!B} = M!Tables /\ {M!A, M!B} = M!PolicyTables
  /\ M!V # M!R /\ M!V # M!A /\ M!V # M!B /\ M!R # M!A /\ M!R # M!B /\ M!A # M!B
BY DEF M!V, M!R, M!A, M!B, M!Tables, M!PolicyTables

LEMMA NotRaisedByTwo ==
  ASSUME NEW d, NEW s, NEW u, ~M!RunSteps(d, <<s, u>>).raised
  PROVE  \E x : x = One(d, s) /\ ~x.raised /\ M!RunSteps(d, <<s, u>>) = One(x, u)
BY RunOfTwo, StaysRaised

LEMMA NotRaisedByThree ==
  ASSUME NEW d, NEW s, NEW u, NEW w, ~M!RunSteps(d, <<s, u, w>>).raised
  PROVE  \E x, y : /\ x = One(d, s) /\ ~x.raised /\ y = One(x, u) /\ ~y.raised
                   /\ M!RunSteps(d, <<s, u, w>>) = One(y, w)
<1>1. PICK x : x = One(d, s)
  OBVIOUS
<1>2. PICK y : y = One(x, u)
  OBVIOUS
<1>3. M!RunSteps(d, <<s, u, w>>) = One(y, w)
  BY <1>1, <1>2, RunOfThree
<1>4. ~y.raised
  BY <1>3, StaysRaised
<1>5. ~x.raised
  BY <1>2, <1>4, StaysRaised
<1>6. QED
  BY <1>1, <1>2, <1>3, <1>4, <1>5

\* Two revisions that say the same of where policies are.
SameSpan(i, j) ==
  /\ i > 0 /\ j > 0
  /\ i \in 6..31 <=> j \in 6..31
  /\ i >= 20 <=> j >= 20
  /\ i >= 32 <=> j >= 32
  /\ i >= 27 <=> j >= 27
  /\ j >= 26 => i >= 26
  /\ (j = 1 => i = 1) /\ (j \in 2..19 => i \in 2..19) /\ (j < 6 => i < 6)
  /\ (j = 20 => i >= 20) /\ (j > 20 => i > 20)
  /\ (j = 32 => i >= 32) /\ (j > 32 => i > 32)

LEMMA SpanUp ==
  ASSUME NEW i \in 0..34, i + 1 \notin SpecialUp
  PROVE  SameSpan(i, i + 1)
BY DEF SpecialUp, SameSpan

LEMMA SpanDown ==
  ASSUME NEW i \in 1..35, i \notin SpecialDown
  PROVE  SameSpan(i, i - 1)
BY DEF SpecialDown, SameSpan

LEMMA AlikeAt ==
  ASSUME NEW d, NEW e, NEW i \in 0..35, NEW j \in 0..35, At(d, i, given), Alike(d, e),
         SameSpan(i, j), M!MigrationsAssumption
  PROVE  At(e, j, KeptAll(e))
<1>1. ColumnsAt(e, j)
  BY DEF At, ColumnsAt, Alike, SameMarks, Marks, SameSpan
<1>2. FormatAt(e, j)
  BY DEF At, FormatAt, Alike, Others, SameSpan
<1>3. RowsAt(e, j, given)
  <2> SUFFICES ASSUME NEW a \in Agents, e.row[a] # None PROVE RowAt(e, a, given[a], j)
    BY DEF RowsAt
  <2>1. RowAt(d, a, given[a], i) /\ e.row = d.row /\ e.stored = d.stored
    BY DEF At, RowsAt, Alike, Others
  <2>2. HeldAt(e, a, M!A, given[a][M!A], 20, j)
    <3>1. HeldAt(d, a, M!A, given[a][M!A], 20, i)
      BY <2>1 DEF RowAt
    <3>2. QED
      BY <2>1, <3>1 DEF HeldAt, SameSpan
  <2>3. HeldAt(e, a, M!B, given[a][M!B], 32, j)
    <3>1. HeldAt(d, a, M!B, given[a][M!B], 32, i)
      BY <2>1 DEF RowAt
    <3>2. QED
      BY <2>1, <3>1 DEF HeldAt, SameSpan
  <2>4. /\ "ima_whitelist" \in e.columns[M!V] <=> "ima_whitelist" \in d.columns[M!V]
        /\ "allowlist" \in e.columns[M!V] <=> "allowlist" \in d.columns[M!V]
    BY DEF Alike, SameMarks, Marks
  <2>5. QED
    BY <2>1, <2>2, <2>3, <2>4 DEF RowAt, SameSpan
<1>4. QED
  BY <1>1, <1>2, <1>3, Carried DEF At, Alike, GivenOK

\* Two revisions between which no policy moves, and whose column of allowlists has
\* what the other's had.
Between(d, e, i, j) ==
  /\ i > 0 /\ j > 0
  /\ (i < 20 <=> j < 20) /\ (j = 20 => i >= 20) /\ (j > 20 => i > 20)
  /\ (i < 32 <=> j < 32) /\ (j = 32 => i >= 32) /\ (j > 32 => i > 32)
  /\ j < 6 => i < 6
  /\ j = 1 => i = 2 /\ ("allowlist" \in d.columns[M!V] => "ima_whitelist" \in e.columns[M!V])
  /\ j \in 2..19 =>
       \/ i = 1 /\ ("ima_whitelist" \in d.columns[M!V] => "allowlist" \in e.columns[M!V])
       \/ i \in 2..19 /\ ("allowlist" \in d.columns[M!V] => "allowlist" \in e.columns[M!V])

\* What is left to show of a step that leaves the rows and the stored policies alone.
LEMMA RowsStay ==
  ASSUME NEW d, NEW e, NEW i \in 0..35, NEW j \in 0..35, At(d, i, given), IsDatabase(e),
         ~e.raised, e.row = d.row, e.stored = d.stored, ColumnsAt(e, j), FormatAt(e, j),
         Between(d, e, i, j), M!MigrationsAssumption
  PROVE  At(e, j, KeptAll(e))
<1>1. RowsAt(e, j, given)
  <2> SUFFICES ASSUME NEW a \in Agents, e.row[a] # None PROVE RowAt(e, a, given[a], j)
    BY DEF RowsAt
  <2>1. RowAt(d, a, given[a], i)
    BY DEF At, RowsAt
  <2>2. HeldAt(e, a, M!A, given[a][M!A], 20, j)
    <3>1. HeldAt(d, a, M!A, given[a][M!A], 20, i)
      BY <2>1 DEF RowAt
    <3>2. QED
      BY <3>1 DEF HeldAt, Between
  <2>3. HeldAt(e, a, M!B, given[a][M!B], 32, j)
    <3>1. HeldAt(d, a, M!B, given[a][M!B], 32, i)
      BY <2>1 DEF RowAt
    <3>2. QED
      BY <3>1 DEF HeldAt, Between
  <2>4. QED
    BY <2>1, <2>2, <2>3 DEF RowAt, Between
<1>2. QED
  BY <1>1, Carried DEF At, GivenOK

\* The first revision: there are no rows before it, nor after its way back.
LEMMA Up1 ==
  ASSUME NEW d, At(d, 0, given), NEW e, e = M!RunSteps(d, M!Revisions[1].up), ~e.raised,
         M!MigrationsAssumption
  PROVE  At(e, 1, KeptAll(e))
<1>1. PICK r : r = {"agent_id", "key", "aik", "ek", "ekcert", "virtual", "active", "provider_keys",
                    "regcount"}
  OBVIOUS
<1>2. PICK v : v = {"agent_id", "v", "ip", "port", "operational_state", "public_key", "tpm_policy",
               "vtpm_policy", "meta_data", "ima_whitelist", "revocation_key", "tpm_version",
               "accept_tpm_hash_algs", "accept_tpm_encryption_algs", "accept_tpm_signing_algs",
               "hash_alg", "enc_alg", "sign_alg"}
  OBVIOUS
<1>3. M!Revisions[1].up = <<M!Create(M!R, r), M!Create(M!V, v)>>
  BY <1>1, <1>2 DEF M!Revisions, M!Rev_8a44a4364f5a, M!Steps
<1>4. PICK x : x = One(d, M!Create(M!R, r)) /\ ~x.raised /\ e = One(x, M!Create(M!V, v))
  BY <1>3, NotRaisedByTwo
<1>5. Came(d, x, M!R, r)
  BY <1>4, AddStep, TablesDiffer DEF At
<1>6. Came(x, e, M!V, v)
  <2>1. IsDatabase(x) /\ M!Create(M!V, v) \in {M!Add(M!V, v), M!Create(M!V, v)}
    BY <1>5 DEF Came
  <2>2. QED
    BY <1>4, <2>1, AddStep, TablesDiffer
<1>7. e.columns[M!V] = v /\ e.columns[M!R] = r
  BY <1>5, <1>6, TablesDiffer DEF Came, At, ColumnsAt
<1>8. ColumnsAt(e, 1)
  BY <1>1, <1>2, <1>7 DEF ColumnsAt
<1>9. e.row = d.row /\ e.format = d.format
  BY <1>5, <1>6 DEF Came, Others
<1>10. \A a \in Agents : e.row[a] = None
  <2>1. \A a \in Agents : ~RowAt(d, a, given[a], 0)
    BY DEF RowAt
  <2>2. QED
    BY <1>9, <2>1 DEF At, RowsAt
<1>11. RowsAt(e, 1, given) /\ FormatAt(e, 1)
  BY <1>9, <1>10 DEF RowsAt, FormatAt, At
<1>12. IsDatabase(e) /\ ~e.raised
  BY <1>6 DEF Came
<1>13. /\ given \in [Agents -> [M!PolicyTables -> M!Contents] \cup {None}]
       /\ \A a \in Agents : e.row[a] # None => given[a] # None
  BY <1>10 DEF At, GivenOK
<1>14. QED
  BY <1>8, <1>11, <1>12, <1>13, Carried

LEMMA Down1 ==
  ASSUME NEW d, At(d, 1, given), NEW e, e = M!RunSteps(d, M!Revisions[1].down), ~e.raised,
         M!MigrationsAssumption
  PROVE  At(e, 0, KeptAll(e))
<1>1. M!Revisions[1].down = <<M!Remove(M!R), M!Remove(M!V)>>
  BY DEF M!Revisions, M!Rev_8a44a4364f5a, M!Steps
<1>2. PICK x : x = One(d, M!Remove(M!R)) /\ ~x.raised /\ e = One(x, M!Remove(M!V))
  BY <1>1, NotRaisedByTwo
<1>3. Removed(d, x, M!R)
  BY <1>2, RemoveStep, TablesDiffer DEF At
<1>4. Removed(x, e, M!V)
  BY <1>2, <1>3, RemoveStep, TablesDiffer DEF Removed
<1>5. e.columns[M!V] = {} /\ e.columns[M!R] = {}
  BY <1>3, <1>4, TablesDiffer DEF Removed
<1>6. ColumnsAt(e, 0)
  BY <1>5 DEF ColumnsAt
<1>7. \A a \in Agents : e.row[a] = None
  BY <1>4 DEF Removed
<1>8. RowsAt(e, 0, given)
  BY <1>7 DEF RowsAt
<1>9. FormatAt(e, 0)
  BY <1>3, <1>4 DEF FormatAt, At, Removed
<1>10. IsDatabase(e) /\ ~e.raised
  BY <1>4 DEF Removed
<1>11. /\ given \in [Agents -> [M!PolicyTables -> M!Contents] \cup {None}]
       /\ \A a \in Agents : e.row[a] # None => given[a] # None
  BY <1>7 DEF At, GivenOK
<1>12. QED
  BY <1>6, <1>8, <1>9, <1>10, <1>11, Carried

\* The revisions that rename, add or drop a column that says where policies are.
LEMMA Up2 ==
  ASSUME NEW d, At(d, 1, given), NEW e, e = M!RunSteps(d, M!Revisions[2].up), ~e.raised,
         M!MigrationsAssumption
  PROVE  At(e, 2, KeptAll(e))
<1>1. M!Revisions[2].up = <<M!Rename(M!V, "ima_whitelist", "allowlist")>>
  BY DEF M!Revisions, M!Rev_eeb702f77d7d, M!Steps
<1>2. Renamed(d, e, M!V, "ima_whitelist", "allowlist")
  BY <1>1, RunOfOne, RenameStep, TablesDiffer DEF At
<1>3. /\ e.columns[M!V] = (d.columns[M!V] \ {"ima_whitelist"}) \cup {"allowlist"}
      /\ e.columns[M!R] = d.columns[M!R]
  BY <1>2, TablesDiffer DEF Renamed
<1>4. ColumnsAt(e, 2)
  BY <1>3 DEF ColumnsAt, At
<1>5. FormatAt(e, 2)
  BY <1>2 DEF FormatAt, At, Renamed, Others
<1>6. Between(d, e, 1, 2)
  BY <1>3 DEF Between
<1>7. IsDatabase(e) /\ ~e.raised /\ e.row = d.row /\ e.stored = d.stored
  BY <1>2 DEF Renamed, Others
<1>8. 1 \in 0..35 /\ 2 \in 0..35
  OBVIOUS
<1>9. QED
  BY <1>4, <1>5, <1>6, <1>7, <1>8, RowsStay, Zenon

LEMMA Down2 ==
  ASSUME NEW d, At(d, 2, given), NEW e, e = M!RunSteps(d, M!Revisions[2].down), ~e.raised,
         M!MigrationsAssumption
  PROVE  At(e, 1, KeptAll(e))
<1>1. M!Revisions[2].down = <<M!Rename(M!V, "allowlist", "ima_whitelist")>>
  BY DEF M!Revisions, M!Rev_eeb702f77d7d, M!Steps
<1>2. Renamed(d, e, M!V, "allowlist", "ima_whitelist")
  BY <1>1, RunOfOne, RenameStep, TablesDiffer DEF At
<1>3. /\ e.columns[M!V] = (d.columns[M!V] \ {"allowlist"}) \cup {"ima_whitelist"}
      /\ e.columns[M!R] = d.columns[M!R]
  BY <1>2, TablesDiffer DEF Renamed
<1>4. ColumnsAt(e, 1)
  BY <1>3 DEF ColumnsAt, At
<1>5. FormatAt(e, 1)
  BY <1>2 DEF FormatAt, At, Renamed, Others
<1>6. Between(d, e, 2, 1)
  BY <1>3 DEF Between
<1>7. IsDatabase(e) /\ ~e.raised /\ e.row = d.row /\ e.stored = d.stored
  BY <1>2 DEF Renamed, Others
<1>8. 2 \in 0..35 /\ 1 \in 0..35
  OBVIOUS
<1>9. QED
  BY <1>4, <1>5, <1>6, <1>7, <1>8, RowsStay, Zenon

LEMMA Up6 ==
  ASSUME NEW d, At(d, 5, given), NEW e, e = M!RunSteps(d, M!Revisions[6].up), ~e.raised,
         M!MigrationsAssumption
  PROVE  At(e, 6, KeptAll(e))
<1>1. M!Revisions[6].up = <<M!Add(M!V, {"mb_refstate"})>>
  BY DEF M!Revisions, M!Rev_ae898986c6e9, M!Adds, M!Steps
<1>2. Came(d, e, M!V, {"mb_refstate"})
  BY <1>1, RunOfOne, AddStep, TablesDiffer DEF At
<1>3. e.columns[M!V] = d.columns[M!V] \cup {"mb_refstate"} /\ e.columns[M!R] = d.columns[M!R]
  BY <1>2, TablesDiffer DEF Came
<1>4. ColumnsAt(e, 6)
  BY <1>3 DEF ColumnsAt, At
<1>5. FormatAt(e, 6)
  BY <1>2 DEF FormatAt, At, Came, Others
<1>6. Between(d, e, 5, 6)
  BY <1>3 DEF Between
<1>7. IsDatabase(e) /\ ~e.raised /\ e.row = d.row /\ e.stored = d.stored
  BY <1>2 DEF Came, Others
<1>8. 5 \in 0..35 /\ 6 \in 0..35
  OBVIOUS
<1>9. QED
  BY <1>4, <1>5, <1>6, <1>7, <1>8, RowsStay, Zenon

\* Going below ae898986c6e9 takes what it brought: nothing is left to be kept.
LEMMA Down6 ==
  ASSUME NEW d, At(d, 6, given), NEW e, e = M!RunSteps(d, M!Revisions[6].down), ~e.raised,
         M!MigrationsAssumption
  PROVE  At(e, 5, KeptAll(e))
<1>1. M!Revisions[6].down = <<M!Drop(M!V, {"mb_refstate"})>>
  BY DEF M!Revisions, M!Rev_ae898986c6e9, M!Adds, M!Steps
<1>2. PICK s : s = M!Drop(M!V, {"mb_refstate"})
  OBVIOUS
<1>3. s.table = M!V /\ s.cs = {"mb_refstate"}
  BY <1>2 DEF M!Drop
<1>4. Gone(d, e, M!V, {"mb_refstate"})
  BY <1>1, RunOfOne, DropStep, TablesDiffer DEF At
<1>5. e.columns[M!V] = d.columns[M!V] \ {"mb_refstate"} /\ e.columns[M!R] = d.columns[M!R]
  BY <1>4, TablesDiffer DEF Gone
<1>6. ColumnsAt(e, 5)
  BY <1>5 DEF ColumnsAt, At
<1>7. FormatAt(e, 5)
  BY <1>4 DEF FormatAt, At, Gone, Others
<1>8. PICK h : h = KeptAll(e)
  OBVIOUS
<1>9. e.row = M!RowsWithout(d, s)
  BY <1>2, <1>4 DEF Gone
<1>10. \A a \in Agents : e.row[a] = None <=> d.row[a] = None
  BY <1>9, RowsWithoutTyped DEF At
<1>11. ASSUME NEW a \in Agents, e.row[a] # None
       PROVE  h[a] \in [M!PolicyTables -> M!Contents] /\ RowAt(e, a, h[a], 5)
  <2>1. RowAt(d, a, given[a], 6) /\ d.row[a] # None
    BY <1>10, <1>11 DEF At, RowsAt
  <2>2. given[a] \in [M!PolicyTables -> M!Contents]
    BY <2>1 DEF At, GivenOK
  <2>3. M!Source(M!A) \notin s.cs /\ M!Reference(M!A) \notin s.cs /\ M!Source(M!B) \in s.cs /\ M!Reference(M!B) \notin s.cs
    BY <1>3, TablesDiffer DEF M!Source, M!Reference
  <2>4. e.row[a] = [t \in M!PolicyTables |->
             [column |-> IF M!Source(t) \in s.cs THEN Null ELSE d.row[a][t].column,
              link   |-> IF M!Reference(t) \in s.cs THEN None ELSE d.row[a][t].link]]
    BY <1>3, <1>9, <2>1 DEF M!RowsWithout
  <2>5. /\ e.row[a][M!A].column = d.row[a][M!A].column /\ e.row[a][M!A].link = d.row[a][M!A].link
        /\ e.row[a][M!B].column = Null /\ e.row[a][M!B].link = d.row[a][M!B].link
    BY <2>3, <2>4, TablesDiffer
  <2>6. HeldAt(d, a, M!A, given[a][M!A], 20, 6) /\ HeldAt(d, a, M!B, given[a][M!B], 32, 6)
    BY <2>1 DEF RowAt
  <2>7. "allowlist" \in e.columns[M!V]
    BY <1>5, <2>1 DEF RowAt
  <2>8. M!Holding(M!A) \cap e.columns[M!V] # {}
    BY <2>7 DEF M!Holding, M!Source
  <2>9. M!Holding(M!B) \cap e.columns[M!V] = {}
    <3>1. M!Holding(M!B) = {"mb_refstate", "mb_policy_id"}
      BY TablesDiffer DEF M!Holding, M!Source, M!Reference
    <3>2. QED
      BY <1>6, <3>1 DEF ColumnsAt
  <2>10. h[a] = [t \in M!PolicyTables |-> IF M!Holding(t) \cap e.columns[M!V] = {} THEN Null ELSE given[a][t]]
    BY <1>8, <1>11 DEF KeptAll, M!Kept
  <2>11. h[a][M!A] = given[a][M!A] /\ h[a][M!B] = Null
    BY <2>8, <2>9, <2>10, TablesDiffer
  <2>12. h[a] \in [M!PolicyTables -> M!Contents]
    BY <2>2, <2>10 DEF M!Contents
  <2>13. HeldAt(e, a, M!A, h[a][M!A], 20, 5) /\ HeldAt(e, a, M!B, h[a][M!B], 32, 5)
    BY <2>5, <2>6, <2>11 DEF HeldAt
  <2>14. QED
    BY <2>7, <2>11, <2>12, <2>13 DEF RowAt
<1>12. \A a \in Agents : e.row[a] = None => h[a] = None
  BY <1>8 DEF KeptAll, M!Kept
<1>13. h \in [Agents -> [M!PolicyTables -> M!Contents] \cup {None}]
  BY <1>8, <1>11, <1>12 DEF KeptAll
<1>14. GivenOK(e, h)
  BY <1>11, <1>12, <1>13 DEF GivenOK, M!MigrationsAssumption
<1>15. RowsAt(e, 5, h)
  BY <1>11 DEF RowsAt
<1>16. QED
  BY <1>4, <1>6, <1>7, <1>8, <1>14, <1>15 DEF At, Gone

LEMMA Up27 ==
  ASSUME NEW d, At(d, 26, given), NEW e, e = M!RunSteps(d, M!Revisions[27].up), ~e.raised,
         M!MigrationsAssumption
  PROVE  At(e, 27, KeptAll(e))
<1>1. M!Revisions[27].up = <<M!Add(M!V, {"last_successful_attestation"})>>
  BY DEF M!Revisions, M!Rev_f838d3cdeead, M!Adds, M!Steps
<1>2. Came(d, e, M!V, {"last_successful_attestation"})
  BY <1>1, RunOfOne, AddStep, TablesDiffer DEF At
<1>3. /\ e.columns[M!V] = d.columns[M!V] \cup {"last_successful_attestation"}
      /\ e.columns[M!R] = d.columns[M!R]
  BY <1>2, TablesDiffer DEF Came
<1>4. ColumnsAt(e, 27)
  BY <1>3 DEF ColumnsAt, At
<1>5. FormatAt(e, 27)
  BY <1>2 DEF FormatAt, At, Came, Others
<1>6. Between(d, e, 26, 27)
  BY <1>3 DEF Between
<1>7. IsDatabase(e) /\ ~e.raised /\ e.row = d.row /\ e.stored = d.stored
  BY <1>2 DEF Came, Others
<1>8. 26 \in 0..35 /\ 27 \in 0..35
  OBVIOUS
<1>9. QED
  BY <1>4, <1>5, <1>6, <1>7, <1>8, RowsStay, Zenon

LEMMA Down27 ==
  ASSUME NEW d, At(d, 27, given), NEW e, e = M!RunSteps(d, M!Revisions[27].down), ~e.raised,
         M!MigrationsAssumption
  PROVE  At(e, 26, KeptAll(e))
<1>1. M!Revisions[27].down = <<M!Drop(M!V, {"last_successful_attestation"})>>
  BY DEF M!Revisions, M!Rev_f838d3cdeead, M!Adds, M!Steps
<1>2. PICK s : s = M!Drop(M!V, {"last_successful_attestation"})
  OBVIOUS
<1>3. s.table = M!V /\ s.cs = {"last_successful_attestation"}
  BY <1>2 DEF M!Drop
<1>4. Gone(d, e, M!V, {"last_successful_attestation"})
  BY <1>1, RunOfOne, DropStep, TablesDiffer DEF At
<1>5. /\ e.columns[M!V] = d.columns[M!V] \ {"last_successful_attestation"}
      /\ e.columns[M!R] = d.columns[M!R]
  BY <1>4, TablesDiffer DEF Gone
<1>6. ColumnsAt(e, 26)
  BY <1>5 DEF ColumnsAt, At
<1>7. FormatAt(e, 26)
  BY <1>4 DEF FormatAt, At, Gone, Others
<1>8. RowsAt(e, 26, given) /\ \A a \in Agents : e.row[a] # None => given[a] # None
  <2>1. ASSUME NEW a \in Agents, e.row[a] # None
        PROVE  RowAt(e, a, given[a], 26) /\ given[a] # None
    <3>1. e.row = M!RowsWithout(d, s)
      BY <1>2, <1>4 DEF Gone
    <3>2. d.row[a] # None
      BY <2>1, <3>1, RowsWithoutTyped DEF At
    <3>3. \A t \in M!PolicyTables : M!Source(t) \notin s.cs /\ M!Reference(t) \notin s.cs
      BY <1>3 DEF M!Source, M!Reference
    <3>4. e.row[a] = [t \in M!PolicyTables |->
             [column |-> IF M!Source(t) \in s.cs THEN Null ELSE d.row[a][t].column,
              link   |-> IF M!Reference(t) \in s.cs THEN None ELSE d.row[a][t].link]]
      BY <1>3, <3>1, <3>2 DEF M!RowsWithout
    <3>5. \A t \in M!PolicyTables : /\ e.row[a][t].column = d.row[a][t].column
                                  /\ e.row[a][t].link = d.row[a][t].link
      BY <3>3, <3>4
    <3>6. RowAt(d, a, given[a], 27) /\ given[a] # None
      BY <3>2 DEF At, RowsAt, GivenOK
    <3>7. e.stored = d.stored
      BY <1>4 DEF Gone, Others
    <3>8. HeldAt(e, a, M!A, given[a][M!A], 20, 26)
      <4>1. HeldAt(d, a, M!A, given[a][M!A], 20, 27)
        BY <3>6 DEF RowAt
      <4>2. QED
        BY <3>5, <3>7, <4>1, TablesDiffer DEF HeldAt
    <3>9. HeldAt(e, a, M!B, given[a][M!B], 32, 26)
      <4>1. HeldAt(d, a, M!B, given[a][M!B], 32, 27)
        BY <3>6 DEF RowAt
      <4>2. QED
        BY <3>5, <3>7, <4>1, TablesDiffer DEF HeldAt
    <3>10. QED
      BY <3>6, <3>8, <3>9 DEF RowAt
  <2>2. QED
    BY <2>1 DEF RowsAt
<1>9. IsDatabase(e) /\ ~e.raised
  BY <1>4 DEF Gone
<1>10. /\ given \in [Agents -> [M!PolicyTables -> M!Contents] \cup {None}]
       /\ \A a \in Agents : e.row[a] # None => given[a] # None
  BY <1>8 DEF At, GivenOK
<1>11. QED
  BY <1>6, <1>7, <1>8, <1>9, <1>10, Carried

\* The tables of policies go, with the policies no agent refers to.
LEMMA Down7 ==
  ASSUME NEW d, At(d, 7, given), NEW e, e = M!RunSteps(d, M!Revisions[7].down), ~e.raised,
         M!MigrationsAssumption
  PROVE  At(e, 6, KeptAll(e))
<1>1. M!Revisions[7].down = <<M!Remove(M!A)>>
  BY DEF M!Revisions, M!Rev_eb869a77abd1, M!Steps
<1>2. Removed(d, e, M!A)
  BY <1>1, RunOfOne, RemoveStep, TablesDiffer DEF At
<1>3. /\ e.columns[M!V] = d.columns[M!V] /\ e.columns[M!R] = d.columns[M!R]
      /\ \A a \in Agents : e.row[a] = d.row[a]
  BY <1>2, TablesDiffer DEF Removed
<1>4. ColumnsAt(e, 6)
  BY <1>3 DEF ColumnsAt, At
<1>5. FormatAt(e, 6)
  BY <1>2 DEF FormatAt, At, Removed
<1>6. RowsAt(e, 6, given)
  <2> SUFFICES ASSUME NEW a \in Agents, e.row[a] # None PROVE RowAt(e, a, given[a], 6)
    BY DEF RowsAt
  <2>1. RowAt(d, a, given[a], 7)
    BY <1>3 DEF At, RowsAt
  <2>2. HeldAt(e, a, M!A, given[a][M!A], 20, 6) /\ HeldAt(e, a, M!B, given[a][M!B], 32, 6)
    BY <1>3, <2>1 DEF HeldAt, RowAt
  <2>3. QED
    BY <1>3, <2>1, <2>2 DEF RowAt
<1>7. IsDatabase(e) /\ ~e.raised
  BY <1>2 DEF Removed
<1>8. /\ given \in [Agents -> [M!PolicyTables -> M!Contents] \cup {None}]
      /\ \A a \in Agents : e.row[a] # None => given[a] # None
  BY <1>3 DEF At, GivenOK
<1>9. QED
  BY <1>4, <1>5, <1>6, <1>7, <1>8, Carried

LEMMA Down31 ==
  ASSUME NEW d, At(d, 31, given), NEW e, e = M!RunSteps(d, M!Revisions[31].down), ~e.raised,
         M!MigrationsAssumption
  PROVE  At(e, 30, KeptAll(e))
<1>1. M!Revisions[31].down = <<M!Remove(M!B)>>
  BY DEF M!Revisions, M!Rev_32902c0a8d90, M!Steps
<1>2. Removed(d, e, M!B)
  BY <1>1, RunOfOne, RemoveStep, TablesDiffer DEF At
<1>3. /\ e.columns[M!V] = d.columns[M!V] /\ e.columns[M!R] = d.columns[M!R]
      /\ \A a \in Agents : e.row[a] = d.row[a]
      /\ e.stored[M!A] = d.stored[M!A]
  BY <1>2, TablesDiffer DEF Removed
<1>4. ColumnsAt(e, 30)
  BY <1>3 DEF ColumnsAt, At
<1>5. FormatAt(e, 30)
  BY <1>2 DEF FormatAt, At, Removed
<1>6. RowsAt(e, 30, given)
  <2> SUFFICES ASSUME NEW a \in Agents, e.row[a] # None PROVE RowAt(e, a, given[a], 30)
    BY DEF RowsAt
  <2>1. RowAt(d, a, given[a], 31)
    BY <1>3 DEF At, RowsAt
  <2>2. HeldAt(e, a, M!A, given[a][M!A], 20, 30) /\ HeldAt(e, a, M!B, given[a][M!B], 32, 30)
    BY <1>3, <2>1 DEF HeldAt, RowAt
  <2>3. QED
    BY <1>3, <2>1, <2>2 DEF RowAt
<1>7. IsDatabase(e) /\ ~e.raised
  BY <1>2 DEF Removed
<1>8. /\ given \in [Agents -> [M!PolicyTables -> M!Contents] \cup {None}]
      /\ \A a \in Agents : e.row[a] # None => given[a] # None
  BY <1>3 DEF At, GivenOK
<1>9. QED
  BY <1>4, <1>5, <1>6, <1>7, <1>8, Carried

LEMMA RowsAfterDrop ==
  ASSUME NEW d, IsDatabase(d), NEW cs, NEW e, Gone(d, e, M!V, cs), NEW a \in Agents, M!MigrationsAssumption
  PROVE  /\ e.row[a] = None <=> d.row[a] = None
         /\ d.row[a] # None => \A t \in M!PolicyTables :
              /\ e.row[a][t].column = IF M!Source(t) \in cs THEN Null ELSE d.row[a][t].column
              /\ e.row[a][t].link = IF M!Reference(t) \in cs THEN None ELSE d.row[a][t].link
<1>1. PICK s : s = M!Drop(M!V, cs)
  OBVIOUS
<1>2. s.table = M!V /\ s.cs = cs
  BY <1>1 DEF M!Drop
<1>3. e.row = M!RowsWithout(d, s)
  BY <1>1 DEF Gone
<1>4. e.row[a] = None <=> d.row[a] = None
  BY <1>3, RowsWithoutTyped
<1>5. ASSUME d.row[a] # None
      PROVE  e.row[a] = [t \in M!PolicyTables |->
                [column |-> IF M!Source(t) \in cs THEN Null ELSE d.row[a][t].column,
                 link   |-> IF M!Reference(t) \in cs THEN None ELSE d.row[a][t].link]]
  BY <1>2, <1>3, <1>5 DEF M!RowsWithout
<1>6. QED
  BY <1>4, <1>5

\* The runtime policies move to a table of their own, and back.
LEMMA Up20 ==
  ASSUME NEW d, At(d, 19, given), NEW e, e = M!RunSteps(d, M!Revisions[20].up), ~e.raised,
         M!MigrationsAssumption
  PROVE  At(e, 20, KeptAll(e))
<1>1. M!Revisions[20].up = <<M!Data("move", M!A), M!Add(M!V, {"ima_policy_id"}), M!Drop(M!V, {"allowlist"})>>
  BY DEF M!Revisions, M!Rev_a72aec03d720, M!Steps
<1>2. PICK x, y : /\ x = One(d, M!Data("move", M!A)) /\ ~x.raised
                  /\ y = One(x, M!Add(M!V, {"ima_policy_id"})) /\ ~y.raised
                  /\ e = One(y, M!Drop(M!V, {"allowlist"}))
  BY <1>1, NotRaisedByThree
<1>3. MovedTo(d, x, M!A)
  BY <1>2, MoveStep, TablesDiffer DEF At
<1>4. Came(x, y, M!V, {"ima_policy_id"})
  BY <1>2, <1>3, AddStep, TablesDiffer DEF MovedTo
<1>5. Gone(y, e, M!V, {"allowlist"})
  BY <1>2, <1>4, DropStep, TablesDiffer DEF Came
<1>6. /\ e.columns[M!V] = (d.columns[M!V] \cup {"ima_policy_id"}) \ {"allowlist"}
      /\ e.columns[M!R] = d.columns[M!R]
  BY <1>3, <1>4, <1>5, TablesDiffer DEF MovedTo, SameColumns, Came, Gone
<1>7. ColumnsAt(e, 20)
  BY <1>6 DEF ColumnsAt, At
<1>8. e.format = d.format /\ e.stored = x.stored /\ y.row = d.row
  BY <1>3, <1>4, <1>5 DEF MovedTo, SameColumns, Came, Gone, Others
<1>9. FormatAt(e, 20)
  BY <1>8 DEF FormatAt, At
<1>10. ASSUME NEW a \in Agents, e.row[a] # None
       PROVE  RowAt(e, a, given[a], 20) /\ given[a] # None
  <2>1. d.row[a] # None
    BY <1>4, <1>5, <1>8, <1>10, RowsAfterDrop DEF Came
  <2>2. \A t \in M!PolicyTables : e.row[a][t].link = d.row[a][t].link
    BY <1>4, <1>5, <1>8, <2>1, RowsAfterDrop DEF Came, M!Reference
  <2>3. e.row[a][M!B].column = d.row[a][M!B].column
    <3>1. M!Source(M!B) \notin {"allowlist"}
      BY TablesDiffer DEF M!Source
    <3>2. QED
      BY <1>4, <1>5, <1>8, <2>1, <3>1, RowsAfterDrop, TablesDiffer DEF Came
  <2>4. RowAt(d, a, given[a], 19) /\ given[a] # None
    BY <2>1 DEF At, RowsAt, GivenOK
  <2>5. e.stored[M!A][a] = d.row[a][M!A].column
    BY <1>3, <1>8, <2>1 DEF MovedTo
  <2>6. HeldAt(d, a, M!A, given[a][M!A], 20, 19) /\ HeldAt(d, a, M!B, given[a][M!B], 32, 19)
    BY <2>4 DEF RowAt
  <2>7. HeldAt(e, a, M!A, given[a][M!A], 20, 20)
    BY <2>2, <2>5, <2>6, TablesDiffer DEF HeldAt
  <2>8. HeldAt(e, a, M!B, given[a][M!B], 32, 20)
    BY <2>2, <2>3, <2>6, TablesDiffer DEF HeldAt
  <2>9. QED
    BY <2>4, <2>7, <2>8 DEF RowAt
<1>11. RowsAt(e, 20, given)
  BY <1>10 DEF RowsAt
<1>12. IsDatabase(e) /\ ~e.raised
  BY <1>5 DEF Gone
<1>13. /\ given \in [Agents -> [M!PolicyTables -> M!Contents] \cup {None}]
       /\ \A a \in Agents : e.row[a] # None => given[a] # None
  BY <1>10 DEF At, GivenOK
<1>14. QED
  BY <1>7, <1>9, <1>11, <1>12, <1>13, Carried

LEMMA Down20 ==
  ASSUME NEW d, At(d, 20, given), NEW e, e = M!RunSteps(d, M!Revisions[20].down), ~e.raised,
         M!MigrationsAssumption
  PROVE  At(e, 19, KeptAll(e))
<1>1. M!Revisions[20].down = <<M!Data("return", M!A), M!Drop(M!V, {"ima_policy_id"})>>
  BY DEF M!Revisions, M!Rev_a72aec03d720, M!Steps
<1>2. PICK x : /\ x = One(d, M!Data("return", M!A)) /\ ~x.raised
               /\ e = One(x, M!Drop(M!V, {"ima_policy_id"}))
  BY <1>1, NotRaisedByTwo
<1>3. ReturnedTo(d, x, M!A)
  BY <1>2, ReturnStep, TablesDiffer DEF At
<1>4. Gone(x, e, M!V, {"ima_policy_id"})
  BY <1>2, <1>3, DropStep, TablesDiffer DEF ReturnedTo
<1>5. e.columns[M!V] = d.columns[M!V] \ {"ima_policy_id"} /\ e.columns[M!R] = d.columns[M!R]
  BY <1>3, <1>4, TablesDiffer DEF ReturnedTo, SameColumns, Gone
<1>6. ColumnsAt(e, 19)
  BY <1>5 DEF ColumnsAt, At
<1>7. e.format = d.format /\ e.stored = x.stored
  BY <1>3, <1>4 DEF ReturnedTo, SameColumns, Gone, Others
<1>8. FormatAt(e, 19)
  BY <1>7 DEF FormatAt, At
<1>9. ASSUME NEW a \in Agents, e.row[a] # None
      PROVE  RowAt(e, a, given[a], 19) /\ given[a] # None
  <2>1. x.row[a] # None
    BY <1>3, <1>4, <1>9, RowsAfterDrop DEF ReturnedTo
  <2>2. d.row[a] # None
    BY <1>3, <2>1 DEF ReturnedTo
  <2>3. RowAt(d, a, given[a], 20) /\ given[a] \in [M!PolicyTables -> M!Contents] /\ given[a] # None
    BY <2>2 DEF At, RowsAt, GivenOK
  <2>4. HeldAt(d, a, M!A, given[a][M!A], 20, 20) /\ HeldAt(d, a, M!B, given[a][M!B], 32, 20)
    BY <2>3 DEF RowAt
  <2>5. d.stored[M!A][a] = given[a][M!A] /\ d.stored[M!A][a] # None
    BY <2>3, <2>4, TablesDiffer DEF HeldAt, M!MigrationsAssumption
  <2>6. "allowlist" \in d.columns[M!V]
    BY <1>3, <2>2, <2>5 DEF ReturnedTo, M!Source
  <2>7. x.row[a][M!A].column = given[a][M!A] /\ x.row[a][M!B] = d.row[a][M!B]
    BY <1>3, <2>2, <2>5, TablesDiffer DEF ReturnedTo
  <2>8. /\ M!Reference(M!A) = "ima_policy_id" /\ M!Reference(M!B) # "ima_policy_id"
        /\ \A t \in M!PolicyTables : M!Source(t) # "ima_policy_id"
    BY TablesDiffer DEF M!Reference, M!Source
  <2>9. /\ e.row[a][M!A].link = None /\ e.row[a][M!A].column = given[a][M!A]
        /\ e.row[a][M!B].link = d.row[a][M!B].link /\ e.row[a][M!B].column = d.row[a][M!B].column
    BY <1>3, <1>4, <2>1, <2>7, <2>8, RowsAfterDrop, TablesDiffer DEF ReturnedTo
  <2>10. HeldAt(e, a, M!A, given[a][M!A], 20, 19)
    BY <2>9 DEF HeldAt
  <2>11. HeldAt(e, a, M!B, given[a][M!B], 32, 19)
    BY <2>4, <2>9 DEF HeldAt
  <2>12. QED
    BY <1>5, <2>3, <2>6, <2>10, <2>11 DEF RowAt
<1>10. RowsAt(e, 19, given)
  BY <1>9 DEF RowsAt
<1>11. IsDatabase(e) /\ ~e.raised
  BY <1>4 DEF Gone
<1>12. /\ given \in [Agents -> [M!PolicyTables -> M!Contents] \cup {None}]
       /\ \A a \in Agents : e.row[a] # None => given[a] # None
  BY <1>9 DEF At, GivenOK
<1>13. QED
  BY <1>6, <1>8, <1>10, <1>11, <1>12, Carried

\* The rows get the references; on the way back the empty column returns.
LEMMA Up21 ==
  ASSUME NEW d, At(d, 20, given), NEW e, e = M!RunSteps(d, M!Revisions[21].up), ~e.raised,
         M!MigrationsAssumption
  PROVE  At(e, 21, KeptAll(e))
<1>1. M!Revisions[21].up = <<M!Data("link", M!A)>>
  BY DEF M!Revisions, M!Rev_4329e2d14944, M!Steps
<1>2. LinkedBy(d, e, M!A)
  BY <1>1, RunOfOne, LinkStep, TablesDiffer DEF At
<1>3. ColumnsAt(e, 21)
  BY <1>2 DEF ColumnsAt, At, LinkedBy, SameColumns
<1>4. FormatAt(e, 21)
  BY <1>2 DEF FormatAt, At, LinkedBy, SameColumns
<1>5. ASSUME NEW a \in Agents, e.row[a] # None
      PROVE  RowAt(e, a, given[a], 21) /\ given[a] # None
  <2>1. d.row[a] # None
    BY <1>2, <1>5 DEF LinkedBy
  <2>2. RowAt(d, a, given[a], 20) /\ given[a] \in [M!PolicyTables -> M!Contents] /\ given[a] # None
    BY <2>1 DEF At, RowsAt, GivenOK
  <2>3. HeldAt(d, a, M!A, given[a][M!A], 20, 20) /\ HeldAt(d, a, M!B, given[a][M!B], 32, 20)
    BY <2>2 DEF RowAt
  <2>4. d.stored[M!A][a] = given[a][M!A] /\ d.stored[M!A][a] # None
    BY <2>2, <2>3, TablesDiffer DEF HeldAt, M!MigrationsAssumption
  <2>5. e.row[a][M!A].link = a /\ e.row[a][M!B] = d.row[a][M!B] /\ e.stored = d.stored
    BY <1>2, <2>1, <2>4, TablesDiffer DEF LinkedBy
  <2>6. HeldAt(e, a, M!A, given[a][M!A], 20, 21)
    BY <2>4, <2>5 DEF HeldAt
  <2>7. HeldAt(e, a, M!B, given[a][M!B], 32, 21)
    BY <2>3, <2>5 DEF HeldAt
  <2>8. QED
    BY <2>2, <2>6, <2>7 DEF RowAt
<1>6. RowsAt(e, 21, given)
  BY <1>5 DEF RowsAt
<1>7. IsDatabase(e) /\ ~e.raised
  BY <1>2 DEF LinkedBy
<1>8. /\ given \in [Agents -> [M!PolicyTables -> M!Contents] \cup {None}]
      /\ \A a \in Agents : e.row[a] # None => given[a] # None
  BY <1>5 DEF At, GivenOK
<1>9. QED
  BY <1>3, <1>4, <1>6, <1>7, <1>8, Carried

LEMMA Down21 ==
  ASSUME NEW d, At(d, 21, given), NEW e, e = M!RunSteps(d, M!Revisions[21].down), ~e.raised,
         M!MigrationsAssumption
  PROVE  At(e, 20, KeptAll(e))
<1>1. M!Revisions[21].down = <<M!Add(M!V, {"allowlist"})>>
  BY DEF M!Revisions, M!Rev_4329e2d14944, M!Steps
<1>2. Came(d, e, M!V, {"allowlist"})
  BY <1>1, RunOfOne, AddStep, TablesDiffer DEF At
<1>3. e.columns[M!V] = d.columns[M!V] \cup {"allowlist"} /\ e.columns[M!R] = d.columns[M!R]
  BY <1>2, TablesDiffer DEF Came
<1>4. ColumnsAt(e, 20)
  BY <1>3 DEF ColumnsAt, At
<1>5. FormatAt(e, 20)
  BY <1>2 DEF FormatAt, At, Came, Others
<1>6. Between(d, e, 21, 20)
  BY DEF Between
<1>7. IsDatabase(e) /\ ~e.raised /\ e.row = d.row /\ e.stored = d.stored
  BY <1>2 DEF Came, Others
<1>8. 21 \in 0..35 /\ 20 \in 0..35
  OBVIOUS
<1>9. QED
  BY <1>4, <1>5, <1>6, <1>7, <1>8, RowsStay, Zenon

\* Formats, up and down; there is no way to 26 without the conversion.
LEMMA Up26 ==
  ASSUME NEW d, At(d, 25, given), NEW e, e = M!RunSteps(d, M!Revisions[26].up), ~e.raised,
         M!MigrationsAssumption
  PROVE  At(e, 26, KeptAll(e))
<1>1. M!Revisions[26].up = <<M!Data("convert", M!A)>>
  BY DEF M!Revisions, M!Rev_8c0f8ded1f90, M!Steps
<1>2. Reformatted(d, e, "policy")
  BY <1>1, RunOfOne, FormatStep DEF At
<1>3. ColumnsAt(e, 26)
  BY <1>2 DEF ColumnsAt, At, Reformatted
<1>4. FormatAt(e, 26)
  BY <1>2 DEF FormatAt, Reformatted
<1>5. Between(d, e, 25, 26)
  BY DEF Between
<1>6. IsDatabase(e) /\ ~e.raised /\ e.row = d.row /\ e.stored = d.stored
  BY <1>2 DEF Reformatted
<1>7. 25 \in 0..35 /\ 26 \in 0..35
  OBVIOUS
<1>8. QED
  BY <1>3, <1>4, <1>5, <1>6, <1>7, RowsStay, Zenon

LEMMA Down26 ==
  ASSUME NEW d, At(d, 26, given), NEW e, e = M!RunSteps(d, M!Revisions[26].down), ~e.raised,
         M!MigrationsAssumption
  PROVE  At(e, 25, KeptAll(e))
<1>1. M!Revisions[26].down = <<M!Data("revert", M!A)>>
  BY DEF M!Revisions, M!Rev_8c0f8ded1f90, M!Steps
<1>2. Reformatted(d, e, "allowlist")
  BY <1>1, RunOfOne, FormatStep DEF At
<1>3. ColumnsAt(e, 25)
  BY <1>2 DEF ColumnsAt, At, Reformatted
<1>4. FormatAt(e, 25)
  BY <1>2 DEF FormatAt, Reformatted
<1>5. Between(d, e, 26, 25)
  BY DEF Between
<1>6. IsDatabase(e) /\ ~e.raised /\ e.row = d.row /\ e.stored = d.stored
  BY <1>2 DEF Reformatted
<1>7. 25 \in 0..35 /\ 26 \in 0..35
  OBVIOUS
<1>8. QED
  BY <1>3, <1>4, <1>5, <1>6, <1>7, RowsStay, Zenon

\* The policies for measured boot move to their table, and back.
LEMMA Up32 ==
  ASSUME NEW d, At(d, 31, given), NEW e, e = M!RunSteps(d, M!Revisions[32].up), ~e.raised,
         M!MigrationsAssumption
  PROVE  At(e, 32, KeptAll(e))
<1>1. M!Revisions[32].up = <<M!Data("move", M!B), M!Add(M!V, {"mb_policy_id"}), M!Drop(M!V, {"mb_refstate"})>>
  BY DEF M!Revisions, M!Rev_f4196d13fe45, M!Steps
<1>2. PICK x, y : /\ x = One(d, M!Data("move", M!B)) /\ ~x.raised
                  /\ y = One(x, M!Add(M!V, {"mb_policy_id"})) /\ ~y.raised
                  /\ e = One(y, M!Drop(M!V, {"mb_refstate"}))
  BY <1>1, NotRaisedByThree
<1>3. MovedTo(d, x, M!B)
  BY <1>2, MoveStep, TablesDiffer DEF At
<1>4. Came(x, y, M!V, {"mb_policy_id"})
  BY <1>2, <1>3, AddStep, TablesDiffer DEF MovedTo
<1>5. Gone(y, e, M!V, {"mb_refstate"})
  BY <1>2, <1>4, DropStep, TablesDiffer DEF Came
<1>6. /\ e.columns[M!V] = (d.columns[M!V] \cup {"mb_policy_id"}) \ {"mb_refstate"}
      /\ e.columns[M!R] = d.columns[M!R]
  BY <1>3, <1>4, <1>5, TablesDiffer DEF MovedTo, SameColumns, Came, Gone
<1>7. ColumnsAt(e, 32)
  BY <1>6 DEF ColumnsAt, At
<1>8. e.format = d.format /\ e.stored = x.stored /\ y.row = d.row
  BY <1>3, <1>4, <1>5 DEF MovedTo, SameColumns, Came, Gone, Others
<1>9. FormatAt(e, 32)
  BY <1>8 DEF FormatAt, At
<1>10. ASSUME NEW a \in Agents, e.row[a] # None
       PROVE  RowAt(e, a, given[a], 32) /\ given[a] # None
  <2>1. d.row[a] # None
    BY <1>4, <1>5, <1>8, <1>10, RowsAfterDrop DEF Came
  <2>2. \A t \in M!PolicyTables : e.row[a][t].link = d.row[a][t].link
    BY <1>4, <1>5, <1>8, <2>1, RowsAfterDrop DEF Came, M!Reference
  <2>3. RowAt(d, a, given[a], 31) /\ given[a] # None
    BY <2>1 DEF At, RowsAt, GivenOK
  <2>4. e.stored[M!B][a] = d.row[a][M!B].column /\ e.stored[M!A] = d.stored[M!A]
    BY <1>3, <1>8, <2>1, TablesDiffer DEF MovedTo
  <2>5. HeldAt(d, a, M!A, given[a][M!A], 20, 31) /\ HeldAt(d, a, M!B, given[a][M!B], 32, 31)
    BY <2>3 DEF RowAt
  <2>6. HeldAt(e, a, M!A, given[a][M!A], 20, 32)
    BY <2>2, <2>4, <2>5, TablesDiffer DEF HeldAt
  <2>7. HeldAt(e, a, M!B, given[a][M!B], 32, 32)
    BY <2>2, <2>4, <2>5, TablesDiffer DEF HeldAt
  <2>8. QED
    BY <2>3, <2>6, <2>7 DEF RowAt
<1>11. RowsAt(e, 32, given)
  BY <1>10 DEF RowsAt
<1>12. IsDatabase(e) /\ ~e.raised
  BY <1>5 DEF Gone
<1>13. /\ given \in [Agents -> [M!PolicyTables -> M!Contents] \cup {None}]
       /\ \A a \in Agents : e.row[a] # None => given[a] # None
  BY <1>10 DEF At, GivenOK
<1>14. QED
  BY <1>7, <1>9, <1>11, <1>12, <1>13, Carried

LEMMA Down32 ==
  ASSUME NEW d, At(d, 32, given), NEW e, e = M!RunSteps(d, M!Revisions[32].down), ~e.raised,
         M!MigrationsAssumption
  PROVE  At(e, 31, KeptAll(e))
<1>1. M!Revisions[32].down = <<M!Add(M!V, {"mb_refstate"}), M!Data("return", M!B), M!Drop(M!V, {"mb_policy_id"})>>
  BY DEF M!Revisions, M!Rev_f4196d13fe45, M!Steps
<1>2. PICK x, y : /\ x = One(d, M!Add(M!V, {"mb_refstate"})) /\ ~x.raised
                  /\ y = One(x, M!Data("return", M!B)) /\ ~y.raised
                  /\ e = One(y, M!Drop(M!V, {"mb_policy_id"}))
  BY <1>1, NotRaisedByThree
<1>3. Came(d, x, M!V, {"mb_refstate"})
  BY <1>2, AddStep, TablesDiffer DEF At
<1>4. ReturnedTo(x, y, M!B)
  BY <1>2, <1>3, ReturnStep, TablesDiffer DEF Came
<1>5. Gone(y, e, M!V, {"mb_policy_id"})
  BY <1>2, <1>4, DropStep, TablesDiffer DEF ReturnedTo
<1>6. /\ e.columns[M!V] = (d.columns[M!V] \cup {"mb_refstate"}) \ {"mb_policy_id"}
      /\ e.columns[M!R] = d.columns[M!R]
  BY <1>3, <1>4, <1>5, TablesDiffer DEF ReturnedTo, SameColumns, Came, Gone
<1>7. ColumnsAt(e, 31)
  BY <1>6 DEF ColumnsAt, At
<1>8. /\ e.format = d.format /\ e.stored = y.stored
      /\ x.row = d.row /\ x.stored = d.stored
  BY <1>3, <1>4, <1>5 DEF ReturnedTo, SameColumns, Came, Gone, Others
<1>9. FormatAt(e, 31)
  BY <1>8 DEF FormatAt, At
<1>10. ASSUME NEW a \in Agents, e.row[a] # None
       PROVE  RowAt(e, a, given[a], 31) /\ given[a] # None
  <2>1. y.row[a] # None
    BY <1>4, <1>5, <1>10, RowsAfterDrop DEF ReturnedTo
  <2>2. d.row[a] # None
    BY <1>4, <1>8, <2>1 DEF ReturnedTo
  <2>3. RowAt(d, a, given[a], 32) /\ given[a] \in [M!PolicyTables -> M!Contents] /\ given[a] # None
    BY <2>2 DEF At, RowsAt, GivenOK
  <2>4. HeldAt(d, a, M!A, given[a][M!A], 20, 32) /\ HeldAt(d, a, M!B, given[a][M!B], 32, 32)
    BY <2>3 DEF RowAt
  <2>5. d.stored[M!B][a] = given[a][M!B] /\ d.stored[M!B][a] # None
    BY <2>3, <2>4, TablesDiffer DEF HeldAt, M!MigrationsAssumption
  <2>6. /\ y.row[a][M!B].column = given[a][M!B] /\ y.row[a][M!A] = d.row[a][M!A]
        /\ y.stored[M!A] = d.stored[M!A]
    BY <1>4, <1>8, <2>2, <2>5, TablesDiffer DEF ReturnedTo
  <2>7. /\ M!Reference(M!B) = "mb_policy_id" /\ M!Reference(M!A) # "mb_policy_id"
        /\ \A t \in M!PolicyTables : M!Source(t) # "mb_policy_id"
    BY TablesDiffer DEF M!Reference, M!Source
  <2>8. /\ e.row[a][M!B].link = None /\ e.row[a][M!B].column = given[a][M!B]
        /\ e.row[a][M!A].link = d.row[a][M!A].link /\ e.row[a][M!A].column = d.row[a][M!A].column
    BY <1>4, <1>5, <2>1, <2>6, <2>7, RowsAfterDrop, TablesDiffer DEF ReturnedTo
  <2>9. HeldAt(e, a, M!A, given[a][M!A], 20, 31)
    BY <1>8, <2>4, <2>6, <2>8 DEF HeldAt
  <2>10. HeldAt(e, a, M!B, given[a][M!B], 32, 31)
    BY <2>8 DEF HeldAt
  <2>11. QED
    BY <2>3, <2>9, <2>10 DEF RowAt
<1>11. RowsAt(e, 31, given)
  BY <1>10 DEF RowsAt
<1>12. IsDatabase(e) /\ ~e.raised
  BY <1>5 DEF Gone
<1>13. /\ given \in [Agents -> [M!PolicyTables -> M!Contents] \cup {None}]
       /\ \A a \in Agents : e.row[a] # None => given[a] # None
  BY <1>10 DEF At, GivenOK
<1>14. QED
  BY <1>7, <1>9, <1>11, <1>12, <1>13, Carried

LEMMA Up33 ==
  ASSUME NEW d, At(d, 32, given), NEW e, e = M!RunSteps(d, M!Revisions[33].up), ~e.raised,
         M!MigrationsAssumption
  PROVE  At(e, 33, KeptAll(e))
<1>1. M!Revisions[33].up = <<M!Data("link", M!B)>>
  BY DEF M!Revisions, M!Rev_9d2f6fab52b1, M!Steps
<1>2. LinkedBy(d, e, M!B)
  BY <1>1, RunOfOne, LinkStep, TablesDiffer DEF At
<1>3. ColumnsAt(e, 33)
  BY <1>2 DEF ColumnsAt, At, LinkedBy, SameColumns
<1>4. FormatAt(e, 33)
  BY <1>2 DEF FormatAt, At, LinkedBy, SameColumns
<1>5. ASSUME NEW a \in Agents, e.row[a] # None
      PROVE  RowAt(e, a, given[a], 33) /\ given[a] # None
  <2>1. d.row[a] # None
    BY <1>2, <1>5 DEF LinkedBy
  <2>2. RowAt(d, a, given[a], 32) /\ given[a] \in [M!PolicyTables -> M!Contents] /\ given[a] # None
    BY <2>1 DEF At, RowsAt, GivenOK
  <2>3. HeldAt(d, a, M!A, given[a][M!A], 20, 32) /\ HeldAt(d, a, M!B, given[a][M!B], 32, 32)
    BY <2>2 DEF RowAt
  <2>4. d.stored[M!B][a] = given[a][M!B] /\ d.stored[M!B][a] # None
    BY <2>2, <2>3, TablesDiffer DEF HeldAt, M!MigrationsAssumption
  <2>5. e.row[a][M!B].link = a /\ e.row[a][M!A] = d.row[a][M!A] /\ e.stored = d.stored
    BY <1>2, <2>1, <2>4, TablesDiffer DEF LinkedBy
  <2>6. HeldAt(e, a, M!A, given[a][M!A], 20, 33)
    BY <2>3, <2>5 DEF HeldAt
  <2>7. HeldAt(e, a, M!B, given[a][M!B], 32, 33)
    BY <2>4, <2>5 DEF HeldAt
  <2>8. QED
    BY <2>2, <2>6, <2>7 DEF RowAt
<1>6. RowsAt(e, 33, given)
  BY <1>5 DEF RowsAt
<1>7. IsDatabase(e) /\ ~e.raised
  BY <1>2 DEF LinkedBy
<1>8. /\ given \in [Agents -> [M!PolicyTables -> M!Contents] \cup {None}]
      /\ \A a \in Agents : e.row[a] # None => given[a] # None
  BY <1>5 DEF At, GivenOK
<1>9. QED
  BY <1>3, <1>4, <1>6, <1>7, <1>8, Carried
-----------------------------------------------------------------------------
(* The specification keeps the invariant *)

LEMMA UpStep ==
  ASSUME NEW d, NEW i \in 0..34, At(d, i, given), NEW e, e = M!RunSteps(d, M!Revisions[i + 1].up),
         ~e.raised, M!MigrationsAssumption
  PROVE  At(e, i + 1, KeptAll(e))
<1>1. CASE i + 1 \notin SpecialUp
  <2>1. i + 1 \in 1..35 /\ i \in 0..35 /\ i + 1 \in 0..35
    OBVIOUS
  <2>2. HarmlessSteps(M!Revisions[i + 1].up)
    BY <1>1, <2>1, HarmlessUp
  <2>3. Alike(d, e)
    BY <2>2, HarmlessRun DEF At
  <2>4. SameSpan(i, i + 1)
    BY <1>1, SpanUp
  <2>5. QED
    BY <2>1, <2>3, <2>4, AlikeAt
<1>2. CASE i + 1 \in SpecialUp
  <2>1. i \in {0, 1, 5, 19, 20, 25, 26, 31, 32}
    BY <1>2 DEF SpecialUp
  <2>2. CASE i = 0
    BY <2>2, Up1
  <2>3. CASE i = 1
    BY <2>3, Up2
  <2>4. CASE i = 5
    BY <2>4, Up6
  <2>5. CASE i = 19
    BY <2>5, Up20
  <2>6. CASE i = 20
    BY <2>6, Up21
  <2>7. CASE i = 25
    BY <2>7, Up26
  <2>8. CASE i = 26
    BY <2>8, Up27
  <2>9. CASE i = 31
    BY <2>9, Up32
  <2>10. CASE i = 32
    BY <2>10, Up33
  <2>11. QED
    BY <2>1, <2>2, <2>3, <2>4, <2>5, <2>6, <2>7, <2>8, <2>9, <2>10
<1>3. QED
  BY <1>1, <1>2

LEMMA DownStep ==
  ASSUME NEW d, NEW i \in 1..35, At(d, i, given), NEW e, e = M!RunSteps(d, M!Revisions[i].down),
         ~e.raised, M!MigrationsAssumption
  PROVE  At(e, i - 1, KeptAll(e))
<1>1. CASE i \notin SpecialDown
  <2>1. i \in 0..35 /\ i - 1 \in 0..35
    OBVIOUS
  <2>2. HarmlessSteps(M!Revisions[i].down)
    BY <1>1, HarmlessDown
  <2>3. Alike(d, e)
    BY <2>2, HarmlessRun DEF At
  <2>4. SameSpan(i, i - 1)
    BY <1>1, SpanDown
  <2>5. QED
    BY <2>1, <2>3, <2>4, AlikeAt
<1>2. CASE i \in SpecialDown
  <2>1. i \in {1, 2, 6, 7, 20, 21, 26, 27, 31, 32}
    BY <1>2 DEF SpecialDown
  <2>2. CASE i = 1
    BY <2>2, Down1
  <2>3. CASE i = 2
    BY <2>3, Down2
  <2>4. CASE i = 6
    BY <2>4, Down6
  <2>5. CASE i = 7
    BY <2>5, Down7
  <2>6. CASE i = 20
    BY <2>6, Down20
  <2>7. CASE i = 21
    BY <2>7, Down21
  <2>8. CASE i = 26
    BY <2>8, Down26
  <2>9. CASE i = 27
    BY <2>9, Down27
  <2>10. CASE i = 31
    BY <2>10, Down31
  <2>11. CASE i = 32
    BY <2>11, Down32
  <2>12. QED
    BY <2>1, <2>2, <2>3, <2>4, <2>5, <2>6, <2>7, <2>8, <2>9, <2>10, <2>11
<1>3. QED
  BY <1>1, <1>2

\* What the invariant says of a database it says of its columns, rows and policies.
LEMMA SameParts ==
  ASSUME NEW d, NEW j, NEW g, At(d, j, g), NEW f,
         f = [columns |-> d.columns, row |-> d.row, stored |-> d.stored,
              format |-> d.format, raised |-> FALSE]
  PROVE  At(f, j, g)
<1>1. /\ f.columns = d.columns /\ f.row = d.row /\ f.stored = d.stored
      /\ f.format = d.format /\ f.raised = FALSE
  OBVIOUS
<1>2. IsDatabase(f)
  BY <1>1 DEF At, IsDatabase
<1>3. ColumnsAt(f, j)
  BY <1>1 DEF At, ColumnsAt
<1>4. RowsAt(f, j, g)
  <2>1. ASSUME NEW a \in Agents, f.row[a] # None
        PROVE  RowAt(f, a, g[a], j)
    <3>1. RowAt(d, a, g[a], j)
      BY <1>1, <2>1 DEF At, RowsAt
    <3>2. QED
      BY <1>1, <3>1 DEF RowAt, HeldAt
  <2>2. QED
    BY <2>1 DEF RowsAt
<1>5. FormatAt(f, j) /\ GivenOK(f, g)
  BY <1>1 DEF At, FormatAt, GivenOK
<1>6. QED
  BY <1>1, <1>2, <1>3, <1>4, <1>5 DEF At

LEMMA InitInductive == M!MigrationsAssumption /\ M!Init => Inductive
<1> SUFFICES ASSUME M!MigrationsAssumption, M!Init PROVE Inductive
  OBVIOUS
<1>1. PICK d : d = M!Database
  OBVIOUS
<1>2. /\ d = [columns |-> columns, row |-> row, stored |-> stored, format |-> format, raised |-> FALSE]
      /\ d.columns = columns /\ d.row = row /\ d.stored = stored /\ d.format = format /\ ~d.raised
  BY <1>1 DEF M!Database
<1>3. M!NoPolicies \in [M!PolicyNames -> M!Contents \cup {None}]
  BY DEF M!NoPolicies
<1>4. IsDatabase(d)
  BY <1>2, <1>3 DEF M!Init, IsDatabase
<1>5. columns[M!V] = {} /\ columns[M!R] = {}
  BY TablesDiffer DEF M!Init
<1>6. ColumnsAt(d, 0)
  BY <1>2, <1>5 DEF ColumnsAt
<1>7. RowsAt(d, 0, given) /\ FormatAt(d, 0) /\ GivenOK(d, given)
  BY <1>2 DEF M!Init, RowsAt, FormatAt, GivenOK
<1>8. rev = 0 /\ rev \in 0..M!Last /\ failed \in BOOLEAN
  <2>1. rev = 0 /\ failed = FALSE
    BY DEF M!Init
  <2>2. failed \in BOOLEAN
    BY <2>1
  <2>3. rev \in 0..M!Last
    BY <2>1, RevisionCount
  <2>4. QED
    BY <2>1, <2>2, <2>3
<1>9. QED
  BY <1>1, <1>2, <1>4, <1>6, <1>7, <1>8 DEF Inductive, At

\* A migration that raises changes nothing but failed; one that does not is a step
\* of the invariant.
LEMMA MigrateKeeps ==
  ASSUME Inductive, M!MigrationsAssumption, NEW steps, NEW to \in 0..35, M!Migrate(steps, to),
         \A e : e = M!RunSteps(M!Database, steps) /\ ~e.raised => At(e, to, KeptAll(e))
  PROVE  Inductive'
<1>1. PICK e : e = M!RunSteps(M!Database, steps)
  OBVIOUS
<1>2. CASE e.raised
  <2>1. failed' = TRUE /\ UNCHANGED <<rev, columns, row, stored, format, given>>
    BY <1>1, <1>2 DEF M!Migrate
  <2>2. M!Database' = M!Database
    BY <2>1 DEF M!Database
  <2>3. QED
    BY <2>1, <2>2 DEF Inductive
<1>3. CASE ~e.raised
  <2>1. /\ rev' = to /\ columns' = e.columns /\ row' = e.row /\ stored' = e.stored
        /\ format' = e.format /\ failed' = failed
    BY <1>1, <1>3 DEF M!Migrate
  <2>2. given' = KeptAll(e)
    BY <1>1, <1>3 DEF M!Migrate, KeptAll
  <2>3. At(e, to, KeptAll(e))
    BY <1>1, <1>3
  <2>4. PICK f : f = M!Database'
    OBVIOUS
  <2>5. f = [columns |-> e.columns, row |-> e.row, stored |-> e.stored, format |-> e.format,
             raised |-> FALSE]
    BY <2>1, <2>4 DEF M!Database
  <2>6. At(f, to, KeptAll(e))
    BY <2>3, <2>5, SameParts
  <2>7. At(M!Database, rev, given)' /\ rev' \in 0..M!Last
    BY <2>1, <2>2, <2>4, <2>6, RevisionCount
  <2>8. QED
    BY <2>1, <2>7 DEF Inductive
<1>4. QED
  BY <1>2, <1>3

LEMMA UpgradeKeeps == Inductive /\ M!MigrationsAssumption /\ M!Upgrade => Inductive'
<1> SUFFICES ASSUME Inductive, M!MigrationsAssumption, M!Upgrade PROVE Inductive'
  OBVIOUS
<1>1. rev \in 0..34 /\ M!Migrate(M!Revisions[rev + 1].up, rev + 1) /\ At(M!Database, rev, given)
  BY RevisionCount DEF M!Upgrade, Inductive
<1>2. \A e : e = M!RunSteps(M!Database, M!Revisions[rev + 1].up) /\ ~e.raised => At(e, rev + 1, KeptAll(e))
  BY <1>1, UpStep
<1>3. rev + 1 \in 0..35
  BY <1>1
<1>4. QED
  BY <1>1, <1>2, <1>3, MigrateKeeps

LEMMA DowngradeKeeps == Inductive /\ M!MigrationsAssumption /\ M!Downgrade => Inductive'
<1> SUFFICES ASSUME Inductive, M!MigrationsAssumption, M!Downgrade PROVE Inductive'
  OBVIOUS
<1>1. rev \in 1..35 /\ M!Migrate(M!Revisions[rev].down, rev - 1) /\ At(M!Database, rev, given)
  BY RevisionCount DEF M!Downgrade, Inductive
<1>2. \A e : e = M!RunSteps(M!Database, M!Revisions[rev].down) /\ ~e.raised => At(e, rev - 1, KeptAll(e))
  BY <1>1, DownStep
<1>3. rev - 1 \in 0..35
  BY <1>1
<1>4. QED
  BY <1>1, <1>2, <1>3, MigrateKeeps

\* The releases in between: what they refer to says at which revisions they run.
LEMMA WhereServed ==
  ASSUME NEW referred \in SUBSET M!PolicyTables, M!Serves(referred), Inductive
  PROVE  \/ referred = {} /\ rev \in 6..19 /\ "allowlist" \in columns[M!V]
         \/ referred = {M!A} /\ rev \in 27..31
         \/ referred = M!PolicyTables /\ rev = 35
<1>1. rev \in 0..35 /\ ColumnsAt(M!Database, rev) /\ M!Database.columns = columns
  BY RevisionCount DEF Inductive, At, M!Database
<1>2. CASE referred = {} /\ M!InColumns(M!A) /\ M!InColumns(M!B)
  <2>1. "allowlist" \in columns[M!V] /\ "ima_policy_id" \notin columns[M!V] /\ "mb_refstate" \in columns[M!V]
    BY <1>2, TablesDiffer DEF M!InColumns, M!Has, M!Source, M!Reference
  <2>2. QED
    BY <1>1, <1>2, <2>1 DEF ColumnsAt
<1>3. CASE referred = {M!A} /\ M!Has(M!V, "last_successful_attestation") /\ M!InColumns(M!B)
  <2>1. "last_successful_attestation" \in columns[M!V] /\ "mb_refstate" \in columns[M!V]
    BY <1>3, TablesDiffer DEF M!InColumns, M!Has, M!Source, M!Reference
  <2>2. QED
    BY <1>1, <1>3, <2>1 DEF ColumnsAt
<1>4. CASE referred = M!PolicyTables /\ rev = M!Last
  BY <1>4, RevisionCount
<1>5. QED
  BY <1>2, <1>3, <1>4 DEF M!Serves

LEMMA AddAgentKeeps ==
  ASSUME Inductive, M!MigrationsAssumption, NEW a \in Agents,
         NEW policy \in [M!PolicyTables -> Policies], M!AddAgent(a, policy)
  PROVE  Inductive'
<1>1. PICK referred \in SUBSET M!PolicyTables :
        /\ M!Serves(referred)
        /\ row' = [row EXCEPT ![a] =
             [t \in M!PolicyTables |-> IF t \in referred THEN [column |-> Null, link |-> a]
                                     ELSE [column |-> policy[t], link |-> None]]]
        /\ stored' = [t \in M!PolicyTables |->
             IF t \in referred THEN [stored[t] EXCEPT ![a] = policy[t]] ELSE stored[t]]
  BY DEF M!AddAgent
<1>2. /\ given' = [given EXCEPT ![a] = policy]
      /\ UNCHANGED <<rev, columns, format, failed>>
  BY DEF M!AddAgent
<1>3. PICK d : d = M!Database
  OBVIOUS
<1>4. d.columns = columns /\ d.row = row /\ d.stored = stored /\ d.format = format
  BY <1>3 DEF M!Database
<1>5. At(d, rev, given) /\ rev \in 0..M!Last /\ failed \in BOOLEAN
  BY <1>3 DEF Inductive
<1>6. PICK q : q = [t \in M!PolicyTables |-> IF t \in referred THEN [column |-> Null, link |-> a]
                                           ELSE [column |-> policy[t], link |-> None]]
  OBVIOUS
<1>7. q \in M!Rows
  <2>1. \A t \in M!PolicyTables : policy[t] \in M!Contents
    BY DEF M!Contents
  <2>2. \A t \in M!PolicyTables : q[t] \in [column : M!Contents, link : Agents \cup {None}]
    BY <1>6, <2>1 DEF M!Contents
  <2>3. QED
    BY <1>6, <2>2 DEF M!Rows
<1>8. /\ row' \in [Agents -> M!Rows \cup {None}] /\ row'[a] = q
      /\ \A b \in Agents : b # a => row'[b] = row[b]
  BY <1>1, <1>4, <1>5, <1>6, <1>7 DEF At, IsDatabase
<1>9. /\ stored' \in [M!PolicyTables -> [M!PolicyNames -> M!Contents \cup {None}]]
      /\ \A t \in M!PolicyTables : \A b \in Agents :
           stored'[t][b] = IF t \in referred /\ b = a THEN policy[t] ELSE stored[t][b]
  <2>1. stored \in [M!PolicyTables -> [M!PolicyNames -> M!Contents \cup {None}]]
    BY <1>4, <1>5 DEF At, IsDatabase
  <2>2. \A t \in M!PolicyTables : policy[t] \in M!Contents
    BY DEF M!Contents
  <2>3. ASSUME NEW t \in M!PolicyTables
        PROVE  /\ stored'[t] \in [M!PolicyNames -> M!Contents \cup {None}]
               /\ \A b \in Agents :
                    stored'[t][b] = IF t \in referred /\ b = a THEN policy[t] ELSE stored[t][b]
    <3>1. stored'[t] = IF t \in referred THEN [stored[t] EXCEPT ![a] = policy[t]] ELSE stored[t]
      BY <1>1
    <3>2. QED
      BY <2>1, <2>2, <3>1 DEF M!PolicyNames
  <2>4. stored' = [t \in M!PolicyTables |-> stored'[t]]
    BY <1>1
  <2>5. QED
    BY <2>3, <2>4
<1>10. /\ given' \in [Agents -> [M!PolicyTables -> M!Contents] \cup {None}] /\ given'[a] = policy
       /\ \A b \in Agents : b # a => given'[b] = given[b]
  <2>1. policy \in [M!PolicyTables -> M!Contents]
    BY DEF M!Contents
  <2>2. QED
    BY <1>2, <1>5, <2>1 DEF At, GivenOK
<1>11. PICK f : f = M!Database'
  OBVIOUS
<1>12. /\ f = [columns |-> columns, row |-> row', stored |-> stored', format |-> format, raised |-> FALSE]
       /\ f.columns = columns /\ f.row = row' /\ f.stored = stored' /\ f.format = format /\ ~f.raised
  BY <1>2, <1>11 DEF M!Database
<1>13. IsDatabase(f)
  BY <1>4, <1>5, <1>8, <1>9, <1>12 DEF At, IsDatabase
<1>14. ColumnsAt(f, rev) /\ FormatAt(f, rev)
  BY <1>4, <1>5, <1>12 DEF At, ColumnsAt, FormatAt
<1>15. \/ referred = {} /\ rev \in 6..19 /\ "allowlist" \in columns[M!V]
       \/ referred = {M!A} /\ rev \in 27..31
       \/ referred = M!PolicyTables /\ rev = 35
  BY <1>1, WhereServed
<1>16. RowAt(f, a, policy, rev)
  <2>1. \A t \in M!PolicyTables : /\ f.row[a][t].link = IF t \in referred THEN a ELSE None
                                /\ f.row[a][t].column = IF t \in referred THEN Null ELSE policy[t]
    BY <1>6, <1>8, <1>12
  <2>2. \A t \in referred : f.stored[t][a] = policy[t]
    BY <1>9, <1>12
  <2>3. HeldAt(f, a, M!A, policy[M!A], 20, rev) /\ HeldAt(f, a, M!B, policy[M!B], 32, rev)
    BY <1>15, <2>1, <2>2, TablesDiffer DEF HeldAt
  <2>4. QED
    BY <1>12, <1>15, <2>3 DEF RowAt
<1>17. ASSUME NEW b \in Agents, b # a, f.row[b] # None
       PROVE  RowAt(f, b, given'[b], rev)
  <2>1. d.row[b] # None /\ f.row[b] = d.row[b] /\ given'[b] = given[b]
    BY <1>4, <1>8, <1>10, <1>12, <1>17
  <2>2. RowAt(d, b, given[b], rev)
    BY <1>5, <2>1 DEF At, RowsAt
  <2>3. \A t \in M!PolicyTables : f.stored[t][b] = d.stored[t][b]
    BY <1>4, <1>9, <1>12, <1>17
  <2>4. HeldAt(d, b, M!A, given[b][M!A], 20, rev) /\ HeldAt(d, b, M!B, given[b][M!B], 32, rev)
    BY <2>2 DEF RowAt
  <2>5. HeldAt(f, b, M!A, given[b][M!A], 20, rev) /\ HeldAt(f, b, M!B, given[b][M!B], 32, rev)
    BY <2>1, <2>3, <2>4, TablesDiffer DEF HeldAt
  <2>6. f.columns = d.columns
    BY <1>4, <1>12
  <2>7. QED
    BY <2>1, <2>2, <2>5, <2>6 DEF RowAt
<1>18. RowsAt(f, rev, given')
  BY <1>10, <1>16, <1>17 DEF RowsAt
<1>19. GivenOK(f, given')
  <2>1. q # None /\ policy # None
    <3>1. policy \in [M!PolicyTables -> M!Contents]
      BY DEF M!Contents
    <3>2. QED
      BY <1>7, <3>1 DEF M!MigrationsAssumption
  <2>2. \A b \in Agents : f.row[b] = None <=> given'[b] = None
    BY <1>4, <1>5, <1>8, <1>10, <1>12, <2>1 DEF At, GivenOK
  <2>3. QED
    BY <1>10, <2>2 DEF GivenOK
<1>20. At(f, rev, given')
  BY <1>12, <1>13, <1>14, <1>18, <1>19 DEF At
<1>21. At(M!Database, rev, given)'
  BY <1>2, <1>11, <1>20
<1>22. QED
  BY <1>2, <1>5, <1>21 DEF Inductive

LEMMA AddListKeeps ==
  ASSUME Inductive, M!MigrationsAssumption, NEW n \in Lists, NEW x \in Policies, M!AddList(n, x)
  PROVE  Inductive'
<1>1. /\ stored' = [stored EXCEPT ![M!A][n] = x] /\ "ima_policy_id" \notin columns[M!V]
      /\ UNCHANGED <<rev, columns, row, format, given, failed>>
  BY DEF M!AddList, M!Has
<1>2. PICK d : d = M!Database
  OBVIOUS
<1>3. d.columns = columns /\ d.row = row /\ d.stored = stored /\ d.format = format
  BY <1>2 DEF M!Database
<1>4. At(d, rev, given) /\ rev \in 0..35 /\ rev \in 0..M!Last /\ failed \in BOOLEAN
  BY <1>2, RevisionCount DEF Inductive
<1>5. rev < 20
  BY <1>1, <1>3, <1>4 DEF At, ColumnsAt
<1>6. /\ stored' \in [M!PolicyTables -> [M!PolicyNames -> M!Contents \cup {None}]]
      /\ stored'[M!B] = stored[M!B]
  <2>1. stored \in [M!PolicyTables -> [M!PolicyNames -> M!Contents \cup {None}]]
    BY <1>3, <1>4 DEF At, IsDatabase
  <2>2. PICK k : k = [stored[M!A] EXCEPT ![n] = x]
    OBVIOUS
  <2>3. k \in [M!PolicyNames -> M!Contents \cup {None}]
    BY <2>1, <2>2, TablesDiffer DEF M!PolicyNames, M!Contents
  <2>4. stored' = [stored EXCEPT ![M!A] = k]
    BY <1>1, <2>2
  <2>5. QED
    BY <2>1, <2>3, <2>4, TablesDiffer
<1>7. PICK f : f = M!Database'
  OBVIOUS
<1>8. /\ f = [columns |-> columns, row |-> row, stored |-> stored', format |-> format, raised |-> FALSE]
      /\ f.columns = columns /\ f.row = row /\ f.stored = stored' /\ f.format = format /\ ~f.raised
  BY <1>1, <1>7 DEF M!Database
<1>9. IsDatabase(f)
  BY <1>3, <1>4, <1>6, <1>8 DEF At, IsDatabase
<1>10. ColumnsAt(f, rev) /\ FormatAt(f, rev) /\ GivenOK(f, given)
  BY <1>3, <1>4, <1>8 DEF At, ColumnsAt, FormatAt, GivenOK
<1>11. RowsAt(f, rev, given)
  <2> SUFFICES ASSUME NEW a \in Agents, f.row[a] # None PROVE RowAt(f, a, given[a], rev)
    BY DEF RowsAt
  <2>1. RowAt(d, a, given[a], rev) /\ f.row = d.row /\ f.columns = d.columns
    BY <1>3, <1>4, <1>8 DEF At, RowsAt
  <2>2. HeldAt(f, a, M!A, given[a][M!A], 20, rev)
    BY <1>4, <1>5, <2>1 DEF RowAt, HeldAt
  <2>3. f.stored[M!B] = d.stored[M!B]
    BY <1>3, <1>6, <1>8
  <2>4. HeldAt(f, a, M!B, given[a][M!B], 32, rev)
    BY <2>1, <2>3 DEF RowAt, HeldAt
  <2>5. QED
    BY <2>1, <2>2, <2>4 DEF RowAt
<1>12. At(f, rev, given)
  BY <1>8, <1>9, <1>10, <1>11 DEF At
<1>13. At(M!Database, rev, given)'
  BY <1>1, <1>7, <1>12
<1>14. QED
  BY <1>1, <1>4, <1>13 DEF Inductive

LEMMA StutterKeeps == Inductive /\ UNCHANGED M!vars => Inductive'
<1> SUFFICES ASSUME Inductive, UNCHANGED M!vars PROVE Inductive'
  OBVIOUS
<1>1. rev' = rev /\ given' = given /\ failed' = failed /\ M!Database' = M!Database
  BY DEF M!vars, M!Database
<1>2. QED
  BY <1>1 DEF Inductive

\* Every reachable database: where the policies are, and by which column each row has
\* or refers to them, is known from the revision.
THEOREM PoliciesAreWhereTheRevisionSays == M!MigrationsAssumption => (M!Spec => []Inductive)
<1> SUFFICES ASSUME M!MigrationsAssumption PROVE M!Spec => []Inductive
  OBVIOUS
<1>1. M!Init => Inductive
  BY InitInductive
<1>2. Inductive /\ [M!Next]_M!vars => Inductive'
  <2> SUFFICES ASSUME Inductive, [M!Next]_M!vars PROVE Inductive'
    OBVIOUS
  <2>1. CASE M!Upgrade
    BY <2>1, UpgradeKeeps
  <2>2. CASE M!Downgrade
    BY <2>2, DowngradeKeeps
  <2>3. ASSUME NEW a \in Agents, NEW policy \in [M!PolicyTables -> Policies], M!AddAgent(a, policy)
        PROVE  Inductive'
    BY <2>3, AddAgentKeeps
  <2>4. ASSUME NEW n \in Lists, NEW x \in Policies, M!AddList(n, x)
        PROVE  Inductive'
    BY <2>4, AddListKeeps
  <2>5. CASE UNCHANGED M!vars
    BY <2>5, StutterKeeps
  <2>6. QED
    BY <2>1, <2>2, <2>3, <2>4, <2>5 DEF M!Next
<1>3. QED
  BY <1>1, <1>2, PTL DEF M!Spec

\* Columns, rows and policies stay what they are, and the first tables are there from
\* the first revision on.
THEOREM DatabasesAreTyped == M!MigrationsAssumption => (M!Spec => []M!TypeOK)
<1> SUFFICES ASSUME M!MigrationsAssumption PROVE M!Spec => []M!TypeOK
  OBVIOUS
<1>1. Inductive => M!TypeOK
  <2> SUFFICES ASSUME Inductive PROVE M!TypeOK
    OBVIOUS
  <2>1. PICK d : d = M!Database
    OBVIOUS
  <2>2. d.columns = columns /\ d.row = row /\ d.stored = stored /\ d.format = format
    BY <2>1 DEF M!Database
  <2>3. At(d, rev, given) /\ rev \in 0..35 /\ rev \in 0..M!Last /\ failed \in BOOLEAN
    BY <2>1, RevisionCount DEF Inductive
  <2>4. DOMAIN columns = M!Tables
    <3>1. columns = [t \in M!Tables |-> columns[t]]
      BY <2>2, <2>3 DEF At, IsDatabase
    <3>2. QED
      BY <3>1
  <2>5. (rev > 0) = (columns[M!V] # {}) /\ (rev > 0) = (columns[M!R] # {})
    BY <2>2, <2>3 DEF At, ColumnsAt
  <2>6. /\ row \in [Agents -> M!Rows \cup {None}]
        /\ stored \in [M!PolicyTables -> [M!PolicyNames -> M!Contents \cup {None}]]
    BY <2>2, <2>3 DEF At, IsDatabase
  <2>7. /\ given \in [Agents -> [M!PolicyTables -> M!Contents] \cup {None}]
        /\ format \in {"allowlist", "policy"}
        /\ \A a \in Agents : (row[a] = None) = (given[a] = None)
    BY <2>2, <2>3 DEF At, GivenOK, FormatAt
  <2>8. QED
    BY <2>3, <2>4, <2>5, <2>6, <2>7 DEF M!TypeOK
<1>2. QED
  BY <1>1, PoliciesAreWhereTheRevisionSays, PTL

\* No upgrade or downgrade, in whatever order and with agents added in between, loses
\* or exchanges what an agent was added with.
THEOREM MigrationsKeepPolicies == M!MigrationsAssumption => (M!Spec => []M!PoliciesSurvive)
<1> SUFFICES ASSUME M!MigrationsAssumption PROVE M!Spec => []M!PoliciesSurvive
  OBVIOUS
<1>1. Inductive => M!PoliciesSurvive
  <2> SUFFICES ASSUME Inductive PROVE M!PoliciesSurvive
    OBVIOUS
  <2>1. PICK d : d = M!Database
    OBVIOUS
  <2>2. d.columns = columns /\ d.row = row /\ d.stored = stored /\ d.format = format
    BY <2>1 DEF M!Database
  <2>3. At(d, rev, given) /\ rev \in 0..35
    BY <2>1, RevisionCount DEF Inductive
  <2>4. ASSUME NEW a \in Agents, row[a] # None
        PROVE  HeldAt(d, a, M!A, given[a][M!A], 20, rev) /\ HeldAt(d, a, M!B, given[a][M!B], 32, rev)
    BY <2>2, <2>3, <2>4 DEF At, RowsAt, RowAt
  <2>5. \A a \in Agents : a # None
    BY DEF M!MigrationsAssumption
  <2>6. ASSUME rev = M!Last, NEW a \in Agents, row[a] # None, NEW t \in M!PolicyTables
        PROVE  M!PolicyOf(a, t) = given[a][t]
    <3>1. row[a][t].link = a /\ stored[t][a] = given[a][t]
      BY <2>2, <2>4, <2>6, TablesDiffer, RevisionCount DEF HeldAt
    <3>2. QED
      BY <2>5, <3>1 DEF M!PolicyOf
  <2>7. rev = M!Last => format = "policy"
    BY <2>2, <2>3, RevisionCount DEF At, FormatAt
  <2>8. ASSUME ~M!Has(M!V, "ima_policy_id"), NEW a \in Agents, row[a] # None, NEW t \in M!PolicyTables
        PROVE  M!PolicyOf(a, t) = given[a][t]
    <3>1. rev < 20
      BY <2>2, <2>3, <2>8 DEF At, ColumnsAt, M!Has
    <3>2. row[a][t].link = None /\ row[a][t].column = given[a][t]
      BY <2>2, <2>3, <2>4, <2>8, <3>1, TablesDiffer DEF HeldAt
    <3>3. QED
      BY <3>2 DEF M!PolicyOf
  <2>9. QED
    BY <2>6, <2>7, <2>8 DEF M!PoliciesSurvive
<1>2. QED
  BY <1>1, PoliciesAreWhereTheRevisionSays, PTL
=============================================================================
