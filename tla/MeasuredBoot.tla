---------------------------- MODULE MeasuredBoot ----------------------------
(* The example policy for measured boot logs, and its evaluation. A log starts as
   the log of a good boot and is edited: events lost, repeated, moved, or measured
   from something else. *)
EXTENDS BootTests

CONSTANTS
  EventOf,    \* the events there are
  GoodLogs,   \* logs of good boots: sequences over DOMAIN EventOf
  Variants,   \* pairs: an event and one that may stand in its place
  MaxEdits,   \* bound: edits of a log
  refstate    \* kernels, scrtm_and_bios, pk, kek, db, dbx, mokdig, mokxdig, has_secureboot

VARIABLES eventlog, edits
vars == <<eventlog, edits>>
-----------------------------------------------------------------------------
(* refstate_to_test *)
Map(f(_), seq) == [i \in DOMAIN seq |-> f(seq[i])]

ScrtmAndBiosTest ==
  LET test(allowed) ==
        And(<<FieldTest("s_crtms", TupleTest(<<DigestTest(allowed.scrtm)>>)),
              FieldTest("platform_firmware_blobs",
                        TupleTest(Map(DigestTest, allowed.platform_firmware)))>>)
  IN  Or(Map(test, refstate.scrtm_and_bios))

\* The kernel may be measured twice; without secure boot GRUB does not verify it.
BsaTest(kernel) ==
  LET shim   == DigestTest(kernel.shim)
      grub   == DigestTest(kernel.grub)
      vmlinuz == DigestTest(kernel.kernel)
  IN  IF ~refstate.has_secureboot THEN TupleTest(<<shim, grub>>)
      ELSE Or(<<TupleTest(<<shim, grub, vmlinuz>>), TupleTest(<<shim, grub, vmlinuz, vmlinuz>>)>>)

VmlinuzTest(kernel) ==
  IF refstate.has_secureboot THEN AcceptAll ELSE DigestTest(kernel.vmlinuz)

KernelTest(kernel) ==
  FieldsTest(<< <<"bsas", BsaTest(kernel)>>,
                <<"ipl9s", TupleTest(<<DigestTest(kernel.initrd)>>)>>,
                <<"vmlinuz", TupleTest(<<VmlinuzTest(kernel)>>)>>,
                <<"kernel_cmdlines", TupleTest(<<RegExp(kernel.kernel_cmdline)>>)>> >>)

FinalFields ==
  {"kernel_cmdlines", "bsas", "ipl9s", "vmlinuz", "s_crtms", "platform_firmware_blobs"}
EventsFinal ==
  DelayToFields(FinalFields, And(<<Or(Map(KernelTest, refstate.kernels)), ScrtmAndBiosTest>>))

\* Without secure boot the lists of keys may be there and empty.
KeyTest(name, test) ==
  OnceTest(name, IF ~refstate.has_secureboot /\ refstate[name] = <<>> THEN AcceptAll ELSE test)

SecureBootTest ==
  FieldTest("Enabled", Equal(IF refstate.has_secureboot THEN "Yes" ELSE "No"))

DriverConfig ==
  LET var(guids, name, t) == {<< <<g, name>>, t>> : g \in guids}
      subset(name) == KeyTest(name, Or(<<KeySubset(X509Old, refstate[name]),
                                         KeySubset(X509, refstate[name])>>))
  IN  VariableDispatch(
        var({GlobalOld, Global}, "SecureBoot", SecureBootTest)
        \cup var({GlobalOld, Global}, "PK", subset("pk"))
        \cup var({GlobalOld, Global}, "KEK", subset("kek"))
        \cup var({ImageOld, Image}, "db",
                 KeyTest("db", Or(<<KeySubsetMulti(<<X509Old, Sha256Old>>, refstate.db),
                                    KeySubsetMulti(<<X509, Sha256>>, refstate.db)>>)))
        \cup var({ImageOld, Image}, "dbx",
                 KeyTest("dbx", Or(<<KeySuperset(Sha256Old, refstate.dbx),
                                     KeySuperset(Sha256, refstate.dbx)>>))))

\* vd_db_test is not db_test: a certificate of db is measured once more when it has
\* verified the shim.
Authority ==
  LET once(guids, name, id) == {<< <<g, name>>, OnceTest(id, AcceptAll)>> : g \in guids}
  IN  VariableDispatch(
        once({ImageOld, Image}, "db", "vd_db") \cup once({ShimOld, Shim}, "SbatLevel", "vd_sbat_level")
        \cup once({ShimOld, Shim}, "Shim", "vd_shim") \cup once({Shim}, "MokListRT", "vd_mok_list")
        \cup {<< <<Shim, "MokListTrusted">>,
                 OnceTest("trusted", Or(<<FieldTest("Enabled", Equal("Yes")),
                                          FieldTest("Enabled", Equal("No"))>>))>>})

String(t) == FieldTest("Event", FieldTest("String", t))

\* The separator and the actions of the firmware have known texts and digests.
Measured(texts) ==
  Or(Map(LAMBDA x : And(<<String(Equal(x)), DigestTest(x)>>), texts))
EvEfiActionTest(pcr) ==
  CASE pcr = 1 -> Measured(<<"setup">>)
    [] pcr = 4 -> Measured(<<"calling">>)
    [] pcr = 5 -> Measured(<<"exit">>)

MokTest ==
  LET mok(name, t) == And(<<String(Equal(name)), t>>)
  IN  Or(<<mok("MokList", DigestsTest(refstate.mokdig)), mok("MokListX", DigestsTest(refstate.mokxdig)),
           mok("MokListTrusted", OnceTest("mok", AcceptAll))>>)

\* Paths of what GRUB reads: only the kernel and the initial ramdisk matter, and
\* neither under a directory of GRUB or of boot loader entries. A path may match
\* several expressions; the first decides.
Ipl9Test ==
  Or(<<String(RegExp({"loader/entries"})), String(RegExp({"grub", "grub/vmlinuz"})),
       And(<<String(RegExp({"vmlinuz", "grub/vmlinuz"})), DelayedField("vmlinuz")>>),
       And(<<String(Or(<<RegExp({"initrd"}), RegExp({"initramfs"})>>)), DelayedField("ipl9s")>>)>>)

Cmdlines == UNION {refstate.kernels[i].kernel_cmdline : i \in DOMAIN refstate.kernels}
Ipl8Test ==
  String(Or(<<RegExp({"grub_cmd"}),
              And(<<RegExp(Cmdlines \cup {"other cmdline"}), DelayedField("kernel_cmdlines")>>)>>))

ConfigFlags == Or(Map(LAMBDA i : OnceTest(i, AcceptAll), <<"flags1", "flags2", "flags3", "flags4">>))

BootVariables ==
  Or(Map(LAMBDA g : VariableTest(g, {"BootOrder", "Boot0000"}, AcceptAll), <<GlobalOld, Global>>))

EventTests ==
  {<< <<0, "EV_NO_ACTION">>, OnceTest("no_action", AcceptAll)>>,
   << <<1, "EV_CPU_MICROCODE">>, OnceTest("microcode", AcceptAll)>>,
   << <<1, "EV_EFI_HANDOFF_TABLES2">>, OnceTest("handoff", AcceptAll)>>,
   << <<0, "EV_S_CRTM_VERSION">>, DelayedField("s_crtms")>>,
   << <<0, "EV_EFI_PLATFORM_FIRMWARE_BLOB">>, DelayedField("platform_firmware_blobs")>>,
   << <<0, "EV_EFI_PLATFORM_FIRMWARE_BLOB2">>, DelayedField("platform_firmware_blobs")>>,
   << <<7, "EV_EFI_VARIABLE_DRIVER_CONFIG">>, DriverConfig>>,
   << <<7, "EV_EFI_VARIABLE_AUTHORITY">>, Authority>>,
   << <<2, "EV_EFI_BOOT_SERVICES_DRIVER">>, AcceptAll>>,
   << <<1, "EV_EFI_VARIABLE_BOOT">>, BootVariables>>,
   << <<1, "EV_PLATFORM_CONFIG_FLAGS">>, ConfigFlags>>,
   << <<4, "EV_EFI_BOOT_SERVICES_APPLICATION">>, DelayedField("bsas")>>,
   << <<14, "EV_IPL">>, MokTest>>,
   << <<9, "EV_IPL">>, Ipl9Test>>,
   << <<8, "EV_IPL">>, Ipl8Test>>,
   << <<5, "EV_EFI_GPT_EVENT">>, OnceTest("gpt", AcceptAll)>>}
  \cup {<< <<pcr, "EV_EFI_ACTION">>, EvEfiActionTest(pcr)>> : pcr \in {1, 4, 5}}
  \cup {<< <<pcr, "EV_SEPARATOR">>, Measured(<<"zeros", "ones">>)>> : pcr \in 0..7}

RefstateToTest ==
  FieldTest("events",
    And(<<DelayInitializer(FinalFields),
          IterateTest(Dispatcher(<<"PCRIndex", "EventType">>, EventTests)),
          EventsFinal>>))

RelevantPcrs == (0..9) \cup {14}

\* bootlog_evaluate with this policy: what the quote lacks cannot be evaluated.
BootlogAccepted(log, pcrsInQuote) ==
  /\ RelevantPcrs \subseteq pcrsInQuote
  /\ WhyNot(RefstateToTest, NoGlobals, [events |-> Map(LAMBDA n : EventOf[n], log)]).ok
-----------------------------------------------------------------------------
Init == eventlog \in GoodLogs /\ edits = 0

Edit(log) == edits < MaxEdits /\ edits' = edits + 1 /\ eventlog' = log
Lose(i)    == Edit(RemoveAt(eventlog, i))
Repeat(i)  == Edit(InsertAt(eventlog, i, eventlog[i]))
Move(i, j) == i # j /\ Edit(InsertAt(RemoveAt(eventlog, i), j, eventlog[i]))
Exchange(i, n) == <<eventlog[i], n>> \in Variants /\ Edit(ReplaceAt(eventlog, i, n))

Next ==
  \E i \in 1..Len(eventlog) :
    \/ Lose(i) \/ Repeat(i)
    \/ \E j \in 1..Len(eventlog) : Move(i, j)
    \/ \E n \in DOMAIN EventOf : Exchange(i, n)

Spec == Init /\ [][Next]_vars
-----------------------------------------------------------------------------
\* The type invariant.
TypeOK == eventlog \in Seq(DOMAIN EventOf) /\ edits \in 0..MaxEdits

\* The events of one place, in the order of the log.
Project(log, places) ==
  SelectSeq(log, LAMBDA n : <<EventOf[n].PCRIndex, EventOf[n].EventType>> \in places)
Texts(log, pcr, kinds) ==
  SelectSeq(log, LAMBDA n : /\ EventOf[n].PCRIndex = pcr /\ EventOf[n].EventType = "EV_IPL"
                            /\ EventOf[n].Event.String \in kinds)
Measures(log, good) == Len(log) = Len(good) /\ \A i \in DOMAIN log : good[i] \in Range(EventOf[log[i]].Digests)

\* What the policy's comments ask of a boot: one of the allowed kernels with its
\* shim, boot loader, ramdisk and command line, one of the allowed firmwares, and
\* no event that is unexpected or too many.
BootsAllowedKernel(log) ==
  LET bsas == Project(log, {<<4, "EV_EFI_BOOT_SERVICES_APPLICATION">>})
      cmds == Texts(log, 8, Cmdlines \cup {"other cmdline"})
      vms  == Texts(log, 9, {"vmlinuz"})
  IN  \E i \in DOMAIN refstate.kernels :
        LET k == refstate.kernels[i]
        IN  /\ IF refstate.has_secureboot
               THEN \/ Measures(bsas, <<k.shim, k.grub, k.kernel>>)
                    \/ Measures(bsas, <<k.shim, k.grub, k.kernel, k.kernel>>)
               ELSE Measures(bsas, <<k.shim, k.grub>>)
            /\ Measures(Texts(log, 9, {"initrd", "initramfs"}), <<k.initrd>>)
            /\ Len(cmds) = 1 /\ EventOf[cmds[1]].Event.String \in k.kernel_cmdline
            /\ Len(vms) = 1 /\ (~refstate.has_secureboot => Measures(vms, <<k.vmlinuz>>))

BootsAllowedFirmware(log) ==
  \E i \in DOMAIN refstate.scrtm_and_bios :
    LET b == refstate.scrtm_and_bios[i]
    IN  /\ Measures(Project(log, {<<0, "EV_S_CRTM_VERSION">>}), <<b.scrtm>>)
        /\ Measures(Project(log, {<<0, "EV_EFI_PLATFORM_FIRMWARE_BLOB">>,
                                  <<0, "EV_EFI_PLATFORM_FIRMWARE_BLOB2">>}), b.platform_firmware)

Expected(n)   == EventOf[n].good
AtMost(log, n) == Cardinality({i \in DOMAIN log : EventOf[log[i]].group = EventOf[n].group}) <= EventOf[n].most

\* The policy, with its tests that stash, that count and that have alternatives,
\* accepts a log exactly when it describes an allowed boot (Example, tests.py).
AcceptsAllowedBoots ==
  BootlogAccepted(eventlog, RelevantPcrs) <=>
    /\ \A i \in DOMAIN eventlog : Expected(eventlog[i]) /\ AtMost(eventlog, eventlog[i])
    /\ BootsAllowedKernel(eventlog) /\ BootsAllowedFirmware(eventlog)
=============================================================================
