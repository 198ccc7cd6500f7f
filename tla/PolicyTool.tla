----------------------------- MODULE PolicyTool -----------------------------
(* keylime-policy create runtime: a runtime policy put together from a base policy,
   an allowlist, the IMA measurement list, the files of a root file system and the
   packages of a repository; and the older tool keylime_create_policy. A list is the
   sequence of what its lines say, a path the sequence of its names. *)
EXTENDS Integers, Sequences, FiniteSets

CONSTANTS
  Files,     \* the files there are: path, content, owner, and whether a link
  Mounts,    \* the mount points and their file system types
  Names,     \* names policies give digests and keyrings for
  Commands,  \* command lines, with the contents of the files they name
  None,
  Refused, Raised   \* how the tool ends without a policy

VARIABLES
  args,      \* the command line
  made       \* what the tool has made of it: None yet, or a policy or how it ended

vars == <<args, made>>
-----------------------------------------------------------------------------
(* Digests. The tool tells algorithms apart by the length of a digest. *)
Hashes  == {"sha1", "sha256", "sha384", "sha512", "sm3_256"}
Invalid == "invalid"
Sha256OrSm3 == "sha256_or_sm3_256"

Digest(alg, content) == [alg |-> alg, of |-> content]
DigestLength(d) == IF d.alg = "sm3_256" THEN "sha256" ELSE d.alg

\* The algorithm guessed from the first digest of a list; SHA-256 is ambiguous.
GuessedAlg(list) ==
  IF list = <<>> THEN Invalid
  ELSE IF DigestLength(list[1].digest) = "sha256" THEN Sha256OrSm3
  ELSE DigestLength(list[1].digest)

\* What the lines of a list say, and the digests they have for each name.
Said(list)   == {list[i] : i \in DOMAIN list}
MapOf(lines) == [n \in Names |-> {l.digest : l \in {k \in lines : k.path = n}}]
NoDigests    == MapOf({})
\* Fault: a name in both lists keeps the digests of the second.
MergeMaplists_Replaces(m1, m2) == [n \in Names |-> IF m2[n] # {} THEN m2[n] ELSE m1[n]]

MergeMaplists(m1, m2) == [n \in Names |-> m1[n] \cup m2[n]]

\* A name is a pair: a part another name may begin with, and the rest of it.
Dir(stem) == << <<stem, "">> >>

EmptyPolicy ==
  [digests |-> NoDigests, excludes |-> {}, keyrings |-> NoDigests, ima_buf |-> NoDigests,
   ignored_keyrings |-> {}, verification_keys |-> {}]

\* The base policy in the present format.
UpdateBasePolicy(base) ==
  IF base = None THEN EmptyPolicy
  ELSE [base EXCEPT !.digests = MapOf(Said(@)), !.keyrings = MapOf(Said(@)),
                    !.ima_buf = MapOf(Said(@))]
-----------------------------------------------------------------------------
(* The IMA measurement list: lines with a template, a path, a digest, and for
   ima-buf whether the data is a certificate. *)
HashTemplates == {"ima-sig", "ima-ng"}

BootAggregateAlg(list) ==
  IF /\ list # <<>>
     /\ list[1].template \in HashTemplates \cup {"ima"}
     /\ list[1].path = Dir("boot_aggregate")
  THEN IF list[1].template = "ima" THEN DigestLength(list[1].digest) ELSE list[1].digest.alg
  ELSE Invalid

MeasuredDigests(list) == MapOf({l \in Said(list) : l.template \in HashTemplates})

\* Keys never go to ima-buf, those of an ignored keyring nowhere.
MeasuredKeyrings(list, ignored) ==
  MapOf({l \in Said(list) : l.template = "ima-buf" /\ l.cert /\ l.path \notin ignored})
\* Fault: keys are taken as well.
MeasuredBufs_WithKeys(list) == MapOf({l \in Said(list) : l.template = "ima-buf"})

MeasuredBufs(list) == MapOf({l \in Said(list) : l.template = "ima-buf" /\ ~l.cert})
-----------------------------------------------------------------------------
(* The files of a root file system. *)
BaseExcludeDirs == {Dir("var"), Dir("tmp")}  \* and eight more

Under(path, dir) == Len(dir) <= Len(path) /\ SubSeq(path, 1, Len(dir)) = dir
RelPath(path, root) == SubSeq(path, Len(root) + 1, Len(path))

\* dir_e.startswith(cur), on the strings.
StartsWith(path, dir) ==
  LET n == Len(dir)
  IN  /\ Len(path) >= n
      /\ SubSeq(path, 1, n - 1) = SubSeq(dir, 1, n - 1)
      /\ dir[n][2] = "" /\ path[n][1] = dir[n][1]

ExcludeDirsBasedOnRootfs(dirs) ==
  LET rootfs == (CHOOSE m \in Mounts : m.at = <<>>).fs
  IN  {m.at : m \in {n \in Mounts : n.fs # rootfs /\ ~\E d \in dirs : StartsWith(n.at, d)}}

\* --skip-path: of directories under the root, with its prefix removed; when the
\* root is / nothing is added.
SkippedDirs(root, skip) ==
  IF root = <<>> THEN {} ELSE {RelPath(d, root) : d \in {e \in skip : Under(e, root)}}

\* Regular files of root's, below no directory to exclude.
AllFiles(root, exclude) ==
  {f \in Files :
    /\ Under(f.path, root) /\ ~f.link /\ f.owner = "root"
    /\ ~\E n \in 1..(Len(f.path) - Len(root) - 1) : SubSeq(RelPath(f.path, root), 1, n) \in exclude}

ScannedFiles(root, skip) ==
  IF \E d \in skip : Under(root, d) THEN {}
  ELSE LET dirs == SkippedDirs(root, skip) \cup BaseExcludeDirs
       IN  AllFiles(root, dirs \cup ExcludeDirsBasedOnRootfs(dirs))

\* A digest that cannot be calculated is logged and left out.
RootfsDigests(root, skip, algo) ==
  [n \in Names |->
    {Digest(algo, f.content) :
       f \in {g \in ScannedFiles(root, skip) : RelPath(g.path, root) = n /\ algo \in Hashes}}]
-----------------------------------------------------------------------------
(* A repository: how it is signed, the lists of its packages' files, its list of
   all files if it has one, and the packages that cannot be fetched. *)
PackageDigests(pkgs) == MapOf(UNION {Said(p) : p \in pkgs})

LocalRepoDigests(repo) == PackageDigests(repo.packages)
RemoteRepoDigests(repo) ==
  IF repo.filelists # None THEN MapOf(Said(repo.filelists))
  ELSE PackageDigests(repo.packages \ repo.unreachable)

\* A signature is looked at when there is one; it needs its key.
Trusted(repo) == repo.signature \in {"none", "good"}

RepoDigests(repo) ==
  CASE repo = None -> NoDigests
    [] repo # None /\ repo.remote  -> RemoteRepoDigests(repo)
    [] repo # None /\ ~repo.remote -> LocalRepoDigests(repo)
-----------------------------------------------------------------------------
(* create_runtime_policy *)

\* One source after the other, in the order of their priority: --algo, the base
\* policy, the allowlist, the measurement list.
Agree(s, a) ==
  CASE a = None -> s
    [] a = Invalid -> [s EXCEPT !.abort = TRUE]
    [] a \notin {None, Invalid} /\ s.algo = None -> [s EXCEPT !.algo = a]
    [] a \notin {None, Invalid, s.algo} /\ s.algo # None ->
         IF s.algo = Sha256OrSm3 /\ a \in {"sha256", "sm3_256"}
         THEN [s EXCEPT !.algo = a] ELSE [s EXCEPT !.abort = TRUE]
    [] OTHER -> s

Reconcile(sources) ==
  Agree(Agree(Agree(Agree([algo |-> None, abort |-> FALSE],
    sources[1]), sources[2]), sources[3]), sources[4])

\* Fault: the base policy is not asked for its algorithm.
Sources_NoBase(c) ==
  <<c.algo, None,
    IF c.allowlist = None THEN None ELSE GuessedAlg(c.allowlist),
    IF c.ima = None THEN None ELSE BootAggregateAlg(c.ima)>>

Sources(c) ==
  <<c.algo,
    IF c.base = None THEN None ELSE GuessedAlg(c.base.digests),
    IF c.allowlist = None THEN None ELSE GuessedAlg(c.allowlist),
    IF c.ima = None THEN None ELSE BootAggregateAlg(c.ima)>>

ListOf(list) == IF list = None THEN <<>> ELSE list

\* What the lists, files and packages of the command add to the base policy.
Combined(c, algo) ==
  LET rootfs == IF c.rootfs = None THEN NoDigests ELSE RootfsDigests(c.rootfs, c.skip, algo)
      lists  == MergeMaplists(MapOf(Said(ListOf(c.allowlist))), MeasuredDigests(ListOf(c.ima)))
      files  == MergeMaplists(rootfs, RepoDigests(c.repo))
  IN  MergeMaplists(MergeMaplists(UpdateBasePolicy(c.base).digests, lists), files)

Excludes(base, c) == base.excludes \cup c.excludes
VerificationKeys(base, c) == base.verification_keys \cup c.keys

\* What both tools do besides the digests.
Rest(base, c) ==
  LET ignored == base.ignored_keyrings \cup c.ignored
      list    == ListOf(c.ima)
  IN  [base EXCEPT
         !.excludes = Excludes(base, c),
         !.ignored_keyrings = ignored,
         !.keyrings = IF c.get_keyrings THEN MergeMaplists(@, MeasuredKeyrings(list, ignored)) ELSE @,
         !.ima_buf  = IF c.get_ima_buf THEN MergeMaplists(@, MeasuredBufs(list)) ELSE @,
         !.verification_keys = VerificationKeys(base, c)]

\* The name of the default measurement list is put in its place only where the
\* digests are read; None is opened for the keyrings.
Raises(c) == c.default_list /\ (c.get_keyrings \/ c.get_ima_buf)

CreateRuntimePolicy(c) ==
  LET chosen  == Reconcile(Sources(c))
      algo    == IF chosen.algo = None THEN "sha256" ELSE chosen.algo
      base    == UpdateBasePolicy(c.base)
  IN  CASE (c.repo # None /\ ~Trusted(c.repo)) \/ chosen.abort -> Refused
        [] c.repo # None /\ Trusted(c.repo) /\ ~chosen.abort /\ Raises(c) -> Raised
        [] c.repo = None /\ ~chosen.abort /\ Raises(c) -> Raised
        [] OTHER -> [Rest(base, c) EXCEPT !.digests = Combined(c, algo)]

\* keylime_create_policy: one source of digests, no look at their algorithm. What a
\* repository has on a name replaces what the base policy has, and of packages
\* that share a name the first found is taken.
Orders(S) == {o \in [1..Cardinality(S) -> S] : \A i, j \in DOMAIN o : o[i] = o[j] => i = j}
RepoUpdates(digests, repo) ==
  {[n \in Names |->
     LET having == {i \in DOMAIN o : MapOf(Said(o[i]))[n] # {}}
         first  == {i \in having : \A j \in having : i <= j}
     IN  IF having = {} THEN digests[n] ELSE UNION {MapOf(Said(o[i]))[n] : i \in first}]
     : o \in Orders(repo.packages)}

RemoteUpdates(digests, repo) ==
  IF repo.filelists # None THEN {MergeMaplists(digests, MapOf(Said(repo.filelists)))}
  ELSE RepoUpdates(digests, repo)

LegacyDigests(c, digests) ==
  CASE c.allowlist # None -> {MergeMaplists(digests, MapOf(Said(c.allowlist)))}
    [] c.allowlist = None /\ c.repo # None ->
         IF c.repo.remote THEN RemoteUpdates(digests, c.repo) ELSE RepoUpdates(digests, c.repo)
    [] OTHER -> {MergeMaplists(digests, MeasuredDigests(ListOf(c.ima)))}

LegacyPolicies(c) ==
  LET base == UpdateBasePolicy(c.base)
  IN  IF c.allowlist = None /\ c.repo # None /\ ~Trusted(c.repo) THEN {Refused}
      ELSE {[Rest(base, c) EXCEPT !.digests = d] : d \in LegacyDigests(c, base.digests)}
-----------------------------------------------------------------------------
AllDigests == [alg : Hashes, of : {f.content : f \in Files} \cup {"aggregate"}]

\* The paths of files and directories, and what they are made of.
Paths == Names \cup {f.path : f \in Files}
         \cup UNION {c.skip \cup (IF c.rootfs = None THEN {} ELSE {c.rootfs}) : c \in Commands}
Steps == UNION {Said(p) : p \in Paths}

\* What a command names are lists of lines with digests, and base policies are
\* policies. One digest is one piece of data, a certificate or not.
ListsOf(c) ==
  UNION {IF c.base = None THEN {} ELSE {c.base.digests, c.base.keyrings, c.base.ima_buf},
         IF c.repo = None THEN {} ELSE c.repo.packages \cup {ListOf(c.repo.filelists)},
         {ListOf(c.allowlist), ListOf(c.ima)}}
PolicyToolAssumption ==
  /\ None \notin Hashes \cup {Invalid, Sha256OrSm3}
  /\ Paths \subseteq Seq(Steps)
  /\ \A c \in Commands :
      /\ c.base # None =>
           c.base = [digests |-> c.base.digests, excludes |-> c.base.excludes,
                     keyrings |-> c.base.keyrings, ima_buf |-> c.base.ima_buf,
                     ignored_keyrings |-> c.base.ignored_keyrings,
                     verification_keys |-> c.base.verification_keys]
      /\ \A list \in ListsOf(c) : \A l \in Said(list) : l.digest \in AllDigests
      /\ \A l \in Said(ListOf(c.ima)) :
           /\ l.path \in Names
           /\ \A k \in Said(ListOf(c.ima)) : l.digest = k.digest => l.cert = k.cert

Init == args \in Commands /\ made = None

Create ==
  /\ made = None /\ args.tool = "create_runtime"
  /\ made' = CreateRuntimePolicy(args)
  /\ UNCHANGED args

CreateLegacy ==
  /\ made = None /\ args.tool = "create_policy"
  /\ made' \in LegacyPolicies(args)
  /\ UNCHANGED args

Next == Create \/ CreateLegacy

Spec == Init /\ [][Next]_vars
-----------------------------------------------------------------------------
Policy == made \notin {None, Refused, Raised}

NameMaps == [Names -> SUBSET AllDigests]

TypeOK ==
  /\ args \in Commands
  /\ Policy => /\ DOMAIN made = DOMAIN EmptyPolicy
               /\ {made.digests, made.keyrings, made.ima_buf} \subseteq NameMaps

\* Every list that is read for its algorithm has digests of one length. The tool
\* looks at the first line only.
ListsOfOneLength ==
  \A c \in Commands :
    /\ \A list \in {IF c.base = None THEN <<>> ELSE c.base.digests, ListOf(c.allowlist)} :
         \A l \in Said(list) : DigestLength(l.digest) = DigestLength(list[1].digest)
    /\ \A l \in Said(ListOf(c.ima)) :
         l.template \in HashTemplates => DigestLength(l.digest) = DigestLength(c.ima[1].digest)

\* The digests of a policy put together from several sources have one length
\* ("digests from different algorithms are not allowed", the tests of mixed
\* sources), when no repository took part.
OneLength ==
  Policy /\ args.tool = "create_runtime" /\ args.repo = None =>
    \A m, n \in Names : \A d \in made.digests[m], e \in made.digests[n] :
      DigestLength(d) = DigestLength(e)

\* What was allowed or ignored by the base policy still is, whatever the
\* lists, files and packages of the command say of the same names. The older
\* tool promises it only without a repository.
BaseSurvives ==
  Policy /\ args.base # None /\ (args.tool = "create_policy" => args.repo = None) =>
    LET base == UpdateBasePolicy(args.base)
    IN  /\ \A n \in Names : /\ base.digests[n] \subseteq made.digests[n]
                            /\ base.keyrings[n] \subseteq made.keyrings[n]
                            /\ base.ima_buf[n] \subseteq made.ima_buf[n]
        /\ base.excludes \subseteq made.excludes
        /\ base.ignored_keyrings \subseteq made.ignored_keyrings
        /\ base.verification_keys \subseteq made.verification_keys

RootfsOnly(c) ==
  c.rootfs \notin {None, <<>>} /\ c.base = None /\ c.allowlist = None /\ c.ima = None /\ c.repo = None

IgnoredKey(l) == l.cert /\ l.path \in made.ignored_keyrings

\* What is to be left out stays out: keys of an ignored keyring get into the policy
\* from the measurement list neither as keys nor as other data, and files below a
\* directory given by --skip-path have no digest ("files found there will not have
\* their checksums calculated"), unless the root is /.
LeftOutStaysOut ==
  Policy =>
    /\ \A l \in Said(ListOf(args.ima)) :
         LET base == UpdateBasePolicy(args.base)
         IN  IgnoredKey(l) => /\ l.digest \notin made.ima_buf[l.path] \ base.ima_buf[l.path]
                              /\ l.digest \notin made.keyrings[l.path] \ base.keyrings[l.path]
    /\ args.tool = "create_runtime" /\ RootfsOnly(args) =>
         \A n \in Names, d \in args.skip :
           LET path == args.rootfs \o n
           IN  path # d /\ Under(path, d) /\ Under(d, args.rootfs) => made.digests[n] = {}
=============================================================================
