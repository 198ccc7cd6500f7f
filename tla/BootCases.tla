----------------------------- MODULE BootCases ------------------------------
(* Boot event logs, and the reference state of an example policy that allows two
   kernels and two firmwares, with and without secure boot. *)
EXTENDS BootTests
Ev(pcr, type, digest, text, good, group, most) ==
  [PCRIndex |-> pcr, EventType |-> type, Digests |-> <<digest>>, Event |-> [String |-> text],
   good |-> good, group |-> group, most |-> most]
Var(type, guid, name, data, good, group, most) ==
  [PCRIndex |-> 7, EventType |-> type, Digests |-> <<"var">>, good |-> good, group |-> group, most |-> most,
   Event |-> [VariableName |-> guid, UnicodeName |-> name, VariableData |-> data]]
DC == "EV_EFI_VARIABLE_DRIVER_CONFIG"
AU == "EV_EFI_VARIABLE_AUTHORITY"
BSA == "EV_EFI_BOOT_SERVICES_APPLICATION"
Sig(d) == [SignatureOwner |-> "owner", SignatureData |-> d]
Db(type, keys) == <<[SignatureType |-> type, Keys |-> keys]>>
Events(secureboot) ==
  [noaction |-> Ev(0, "EV_NO_ACTION", "zeros", "spec", TRUE, "noaction", 1),
   scrtm    |-> Ev(0, "EV_S_CRTM_VERSION", "scrtm", "", TRUE, "scrtm", 99),
   blob     |-> Ev(0, "EV_EFI_PLATFORM_FIRMWARE_BLOB2", "blob", "", TRUE, "blob", 99),
   blobx    |-> Ev(0, "EV_EFI_PLATFORM_FIRMWARE_BLOB", "blobx", "", TRUE, "blob", 99),
   sbyes    |-> Var(DC, Global, "SecureBoot", [Enabled |-> "Yes"], secureboot, "sb", 99),
   sbno     |-> Var(DC, GlobalOld, "SecureBoot", [Enabled |-> "No"], ~secureboot, "sb", 99),
   pk       |-> Var(DC, Global, "PK", Db(X509, <<Sig("pk1")>>), TRUE, "pk", 1),
   pkold    |-> Var(DC, GlobalOld, "PK", Db(X509Old, <<Sig("pk2")>>), TRUE, "pk", 1),
   pkx      |-> Var(DC, Global, "PK", Db(X509, <<Sig("pk1"), Sig("other")>>), FALSE, "pk", 1),
   kek      |-> Var(DC, Global, "KEK", Db(X509, <<Sig("kek1")>>), TRUE, "kek", 1),
   kekx     |-> Var(DC, Global, "KEK", Db(Sha256, <<Sig("kek1")>>), ~secureboot, "kek", 1),
   db       |-> Var(DC, Image, "db", Db(X509, <<Sig("db1")>>) \o Db(Sha256, <<Sig("db2")>>), TRUE, "db", 1),
   dbmixed  |-> Var(DC, Image, "db", Db(X509, <<Sig("db1")>>) \o Db(Sha256Old, <<Sig("db2")>>), ~secureboot, "db", 1),
   authdb   |-> Var(AU, Image, "db", Sig("db1"), TRUE, "authdb", 1),
   authshim |-> Var(AU, Shim, "Shim", Sig("vendor"), TRUE, "authshim", 1),
   sbat     |-> Var(AU, ShimOld, "SbatLevel", "sbat,1", TRUE, "sbat", 1),
   trusted  |-> Var(AU, Shim, "MokListTrusted", [Enabled |-> "Yes"], TRUE, "trusted", 1),
   trustedx |-> Var(AU, Shim, "MokListTrusted", [Enabled |-> "Maybe"], FALSE, "trusted", 1),
   dbx      |-> Var(DC, Image, "dbx", Db(Sha256, <<Sig("bad1"), Sig("bad2"), Sig("bad3")>>), TRUE, "dbx", 1),
   dbxx     |-> Var(DC, Image, "dbx", Db(Sha256, <<Sig("bad1")>>), FALSE, "dbx", 1),
   flags    |-> Ev(1, "EV_PLATFORM_CONFIG_FLAGS", "flags", "", TRUE, "flags", 4),
   sep      |-> Ev(4, "EV_SEPARATOR", "zeros", "zeros", TRUE, "sep", 99),
   sepx     |-> Ev(4, "EV_SEPARATOR", "ones", "zeros", FALSE, "sep", 99),
   shim     |-> Ev(4, BSA, "shim", "", TRUE, "bsa", 99),
   grub     |-> Ev(4, BSA, "grub", "", TRUE, "bsa", 99),
   kernel1  |-> Ev(4, BSA, "kernel1", "", TRUE, "bsa", 99),
   kernel2  |-> Ev(4, BSA, "kernel2", "", TRUE, "bsa", 99),
   moklist  |-> Ev(14, "EV_IPL", "mok", "MokList", TRUE, "mok", 99),
   moktrust |-> Ev(14, "EV_IPL", "any", "MokListTrusted", TRUE, "moktrust", 1),
   grubcmd  |-> Ev(8, "EV_IPL", "any", "grub_cmd", TRUE, "cmd", 99),
   cmdline1 |-> Ev(8, "EV_IPL", "any", "ro quiet", TRUE, "cmd", 99),
   cmdline2 |-> Ev(8, "EV_IPL", "any", "other cmdline", TRUE, "cmd", 99),
   vmlinuz1 |-> Ev(9, "EV_IPL", "vm1", "vmlinuz", TRUE, "ipl9", 99),
   vmlinuz2 |-> Ev(9, "EV_IPL", "vm2", "vmlinuz", TRUE, "ipl9", 99),
   grubvm   |-> Ev(9, "EV_IPL", "vm2", "grub/vmlinuz", TRUE, "ipl9", 99),
   initrd1  |-> Ev(9, "EV_IPL", "initrd1", "initrd", TRUE, "ipl9", 99),
   initrd2  |-> Ev(9, "EV_IPL", "initrd2", "initramfs", TRUE, "ipl9", 99),
   gpt      |-> Ev(5, "EV_EFI_GPT_EVENT", "any", "", TRUE, "gpt", 1),
   unknown  |-> Ev(6, "EV_IPL", "any", "", FALSE, "unknown", 99)]
Kernel(kernel, initrd, vm, cmds) ==
  [shim |-> "shim", grub |-> "grub", kernel |-> kernel, initrd |-> initrd, vmlinuz |-> vm, kernel_cmdline |-> cmds]
Refstate(secureboot) ==
  [kernels |-> <<Kernel("kernel1", "initrd1", "vm1", {"ro quiet"}), Kernel("kernel2", "initrd2", "vm1", {"ro quiet", "rw"})>>,
   scrtm_and_bios |-> <<[scrtm |-> "scrtm", platform_firmware |-> <<"blobx", "blobx">>],
                        [scrtm |-> "scrtm", platform_firmware |-> <<"blob">>]>>,
   pk |-> <<Sig("pk1"), Sig("pk2")>>, dbx |-> <<Sig("bad1"), Sig("bad2")>>,
   kek |-> IF secureboot THEN <<Sig("kek1")>> ELSE <<>>,
   db |-> IF secureboot THEN <<Sig("db1"), Sig("db2"), Sig("db3")>> ELSE <<>>,
   mokdig |-> {"mok"}, mokxdig |-> {}, has_secureboot |-> secureboot]
\* Logs of good boots.
Start(blobs, sb) == <<"noaction", "scrtm">> \o blobs \o <<sb, "pk">>
Early == Start(<<"blob">>, "sbyes") \o <<"dbx", "flags", "flags", "sep", "shim", "grub">>
SecureLogs ==
  {Early \o <<"kernel1", "moktrust", "cmdline1", "vmlinuz1", "initrd1">>,
   Early \o <<"kernel1", "kernel1", "cmdline1", "vmlinuz1", "initrd1">>,
   Early \o <<"kernel2", "grubcmd", "cmdline1", "vmlinuz1", "initrd2">>,
   Start(<<"blob">>, "sbyes") \o <<"kek", "db", "dbx", "sep", "authdb", "sbat", "authshim", "shim", "grub", "trusted", "kernel1", "grubvm", "cmdline1", "vmlinuz1", "initrd1">>,
   Start(<<"blobx", "blobx">>, "sbyes") \o <<"flags", "flags", "flags", "flags", "shim", "grub", "kernel2", "cmdline1", "initrd2", "vmlinuz1">>}
InsecureLogs ==
  {Start(<<"blob">>, "sbno") \o <<"sep", "shim", "grub", "cmdline1", "vmlinuz1", "initrd1">>,
   Start(<<"blob">>, "sbno") \o <<"kek", "db", "gpt", "shim", "grub", "cmdline1", "vmlinuz1", "initrd2">>}

\* An event, and one that is measured in its place.
Exchanges == {<<"blob", "blobx">>, <<"sbyes", "sbno">>, <<"sbno", "sbyes">>, <<"vmlinuz1", "vmlinuz2">>, <<"pk", "pkold">>, <<"pk", "pkx">>, <<"dbx", "dbxx">>, <<"sep", "sepx">>,
  <<"kernel1", "kernel2">>, <<"moktrust", "moklist">>, <<"cmdline1", "grubcmd">>, <<"cmdline1", "cmdline2">>,
  <<"initrd1", "initrd2">>, <<"flags", "gpt">>, <<"noaction", "unknown">>,
  <<"kek", "kekx">>, <<"db", "dbmixed">>, <<"trusted", "trustedx">>, <<"authshim", "authdb">>, <<"vmlinuz1", "grubvm">>, <<"initrd1", "grubvm">>}
=============================================================================
