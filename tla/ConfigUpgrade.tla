--------------------------- MODULE ConfigUpgrade ---------------------------
(* convert_config: the configuration files of a release brought to a later one by
   the mappings between them, one release after the other. A configuration gives
   each section its options; what a section does not have it takes from DEFAULT.
   Quotes, and the adjustment of values of release 2.0, are left out. *)
EXTENDS Naturals, FiniteSets, Sequences, SequencesExt

CONSTANTS
  Mappings,    \* one for each release, the oldest first
  Templates,   \* Templates[c][v]: the sections and options of component c's file
  Order,       \* the sections, in the order of the files
  PartOf,      \* the component of each section that is not a component
  OldFormat,   \* the section and option of the old single file, by new section and option
  Selections,     \* sets of components a user may convert
  Targets,     \* releases a user may ask for with --version
  MaxEdits,    \* bound: options the user may set
  None, Blank

Components == DOMAIN Templates
Latest == Len(Mappings)

VARIABLES
  disk,        \* the installed files, as one configuration
  legacy,      \* the values the user set in the old single file, if that is what there is
  edited,      \* <<section, option>> pairs the user has set
  raised       \* the last call ended in an exception

vars == <<disk, legacy, edited, raised>>
-----------------------------------------------------------------------------
With(f, k, v) == [x \in DOMAIN f \cup {k} |-> IF x = k THEN v ELSE f[x]]
Without(f, k) == [x \in DOMAIN f \ {k} |-> f[x]]
Empty == <<>>

Has(config, s, o) == s \in DOMAIN config /\ o \in DOMAIN config[s] \cup DOMAIN config["DEFAULT"]
Get(config, s, o) == IF o \in DOMAIN config[s] THEN config[s][o] ELSE config["DEFAULT"][o]
Items(config, s) ==
  [o \in DOMAIN config[s] \cup DOMAIN config["DEFAULT"] |-> Get(config, s, o)]

NoConfig == [s \in {"DEFAULT"} |-> Empty]

\* The component whose version counts for a section.
VersionComponent(mapping, s) ==
  IF s \in DOMAIN mapping.subcomponents THEN mapping.subcomponents[s] ELSE s

\* Releases are numbered from 1; 0 is the old format.
OldVersion(mapping, config, s) ==
  LET c == VersionComponent(mapping, s)
  IN  IF s \in DOMAIN config /\ Has(config, c, "version") THEN Get(config, c, "version") ELSE 0

NeedsUpdate(c, config, v) == ~(Has(config, c, "version") /\ Get(config, c, "version") >= v)

Reached(old, v, target) == old >= v \/ (target # None /\ old >= target)
-----------------------------------------------------------------------------
(* process_full_mapping *)
\* Fault: values are looked up under their new names.
FullSection_NewNames(mapping, config, defaults, s) ==
  LET m == mapping.components[s]
      value(o) == IF ~defaults /\ s \in DOMAIN config /\ Has(config, s, o)
                  THEN Get(config, s, o) ELSE m[o].default
  IN  With([o \in DOMAIN m |-> value(o)], "version", mapping.version)

FullSection(mapping, config, defaults, s) ==
  LET m == mapping.components[s]
      value(o) == IF ~defaults /\ Has(config, m[o].section, m[o].option)
                  THEN Get(config, m[o].section, m[o].option) ELSE m[o].default
  IN  With([o \in DOMAIN m |-> value(o)], "version", mapping.version)

ProcessFullMapping(mapping, config, defaults, target) ==
  [s \in DOMAIN mapping.components \cup {"DEFAULT"} |->
     IF s = "DEFAULT" THEN Empty
     ELSE IF s \in DOMAIN config /\ Reached(OldVersion(mapping, config, s), mapping.version, target)
     THEN Items(config, s)
     ELSE FullSection(mapping, config, defaults, s)]
-----------------------------------------------------------------------------
(* process_update_mapping *)
Added(new, s, add) ==
  [new EXCEPT ![s] = [o \in DOMAIN @ \cup DOMAIN add |-> IF Has(new, s, o) THEN Get(new, s, o) ELSE add[o]]]

Removed(new, s, remove) == [new EXCEPT ![s] = [o \in DOMAIN @ \ remove |-> @[o]]]

\* An option that moves to another section takes its value along.
Replaced(new, s, replace, defaults) ==
  LET move(n, o) ==
        LET to     == replace[o]
            there  == Has(n, s, o)
            value  == IF there /\ ~defaults THEN Get(n, s, o) ELSE to.default
            popped == IF there /\ ~defaults THEN [n EXCEPT ![s] = Without(@, o)] ELSE n
        IN  With(popped, to.section,
                 With(IF to.section \in DOMAIN popped THEN popped[to.section] ELSE Empty, to.option, value))
  IN  FoldLeft(move, new, SetToSeq(DOMAIN replace))

\* Fault: the new options are not added.
UpdateOptions_NoneAdded(new, s, ops, defaults) ==
  Replaced(Removed(new, s, ops.remove), s, ops.replace, defaults)

UpdateOptions(new, s, ops, defaults) ==
  Replaced(Removed(Added(new, s, ops.add), s, ops.remove), s, ops.replace, defaults)

\* A section the mapping says nothing of gets its version all the same, and so
\* does DEFAULT.
UpdateSection(mapping, config, defaults, target, new, s) ==
  LET copied == With(new, s, Items(config, s))
      old    == OldVersion(mapping, config, s)
  IN  IF s \notin DOMAIN mapping.components
      THEN [copied EXCEPT ![s] = With(@, "version", mapping.version)]
      ELSE IF Reached(old, mapping.version, target) THEN copied
      ELSE LET done == UpdateOptions(copied, s, mapping.components[s], defaults)
           IN  [done EXCEPT ![s] = With(@, "version", mapping.version)]

\* The version of a section of the mapping has to be there; [revocations], which the
\* mapping of 2.3 has, comes without one in the files of 2.0 to 2.2.
Unversioned(mapping, config) ==
  \E s \in DOMAIN mapping.components \cap DOMAIN config :
    ~Has(config, VersionComponent(mapping, s), "version")

ProcessUpdateMapping(mapping, config, defaults, target) ==
  LET present == SelectSeq(<<"DEFAULT">> \o Order, LAMBDA s : s \in DOMAIN config)
      absent  == SelectSeq(Order, LAMBDA s : s \in DOMAIN mapping.components \ DOMAIN config)
      updated == FoldLeft(LAMBDA new, s : UpdateSection(mapping, config, defaults, target, new, s),
                          NoConfig, present)
  IN  FoldLeft(LAMBDA new, s : UpdateOptions(With(new, s, Empty), s, mapping.components[s], defaults),
               updated, absent)
-----------------------------------------------------------------------------
(* process_mapping and process_versions; None once an exception was raised *)
ProcessMapping(mapping, components, config, defaults, target) ==
  IF config = None \/ ~\E c \in components : NeedsUpdate(c, config, mapping.version) THEN config
  ELSE IF mapping.full THEN ProcessFullMapping(mapping, config, defaults, target)
  ELSE IF Unversioned(mapping, config) THEN None
  ELSE ProcessUpdateMapping(mapping, config, defaults, target)

ProcessVersions(components, config, defaults, target) ==
  FoldLeft(LAMBDA c, m : ProcessMapping(m, components, c, defaults, target), config,
           IF target = None THEN Mappings ELSE SubSeq(Mappings, 1, target))

\* The files of the components, through the templates of their versions: an option
\* the template does not know is dropped, one the configuration lacks is blank.
Output(components, config, old) ==
  LET file(c) == Templates[c][Get(config, c, "version")]
      written == UNION {DOMAIN file(c) : c \in components}
      owner(s) == CHOOSE c \in components : s \in DOMAIN file(c)
      value(s, o) == IF Has(config, s, o) THEN Get(config, s, o) ELSE Blank
  IN  [s \in (DOMAIN old \cup written) |->
         IF s \in written THEN [o \in file(owner(s))[s] |-> value(s, o)] ELSE old[s]]

\* get_config: the old file is read only when none of the new ones exists.
OldConfig ==
  [s \in {"DEFAULT"} \cup {OldFormat[x][1] : x \in legacy} |->
     [o \in {OldFormat[x][2] : x \in {y \in legacy : OldFormat[y][1] = s}} |-> "user"]]
GetConfig == IF disk = NoConfig THEN OldConfig ELSE disk

SectionsOf(components) == {s \in DOMAIN PartOf : PartOf[s] \in components} \cup components
-----------------------------------------------------------------------------
\* The files of release v as installed, or the old file, or nothing.
Installed(v) ==
  [s \in {"DEFAULT"} \cup UNION {DOMAIN Templates[c][v] : c \in Components} |->
     IF s = "DEFAULT" THEN Empty
     ELSE [o \in Templates[IF s \in Components THEN s ELSE PartOf[s]][v][s] |->
             IF o = "version" THEN v ELSE "default"]]

Init ==
  /\ \/ disk \in {Installed(v) : v \in 1..Latest} /\ legacy = {}
     \/ disk = NoConfig /\ legacy \in SUBSET DOMAIN OldFormat
  /\ edited = legacy
  /\ raised = FALSE

\* convert_config: main()
Convert(components, defaults, target) ==
  LET old == IF defaults THEN NoConfig ELSE GetConfig
      config == ProcessVersions(components, old, defaults, target)
      writes == config # None /\ (config # old \/ components # Components)
      next   == Output(components, config, disk)
  IN  /\ raised' = (config = None)
      /\ disk' = IF writes THEN next ELSE disk
      /\ legacy' = IF writes THEN {} ELSE legacy
      /\ edited' = IF ~writes THEN edited
                   ELSE {x \in edited :
                           /\ x[1] \in DOMAIN next /\ x[2] \in DOMAIN next[x[1]]
                           /\ ~(defaults /\ x[1] \in SectionsOf(components))}

\* The user sets an option in an installed file.
Edit(s, o) ==
  /\ Cardinality(edited) < MaxEdits
  /\ s # "DEFAULT" /\ o # "version"
  /\ disk' = [disk EXCEPT ![s] = With(@, o, "user")]
  /\ edited' = edited \cup {<<s, o>>}
  /\ UNCHANGED <<legacy, raised>>

Next ==
  \/ \E cs \in Selections, d \in BOOLEAN, t \in Targets \cup {None} : Convert(cs, d, t)
  \/ \E s \in DOMAIN disk : \E o \in DOMAIN disk[s] : Edit(s, o)

Spec == Init /\ [][Next]_vars
-----------------------------------------------------------------------------
TypeOK ==
  /\ \A s \in DOMAIN disk : \A o \in DOMAIN disk[s] :
       IF o = "version" THEN disk[s][o] \in 1..Latest ELSE disk[s][o] \in {Blank, "default", "new", "user"}
  /\ legacy \subseteq DOMAIN OldFormat
  /\ raised \in BOOLEAN

\* However files are converted, together or one component at a time, to the latest
\* release or a chosen one, from the old format or a newer one, an option the user
\* has set keeps its value as long as the release written has the option.
ValuesKept == \A x \in edited : disk # NoConfig => disk[x[1]][x[2]] = "user"

\* No template asks for an option that the configuration converted for it lacks:
\* the file would have it blank.
NothingIsBlank == \A s \in DOMAIN disk : \A o \in DOMAIN disk[s] : disk[s][o] # Blank
=============================================================================
