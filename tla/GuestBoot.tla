----------------------------- MODULE GuestBoot -----------------------------
(***************************************************************************)
(* From the configuration file to the list of VMs: hypervisor_main reads   *)
(* the configurations, creates a VM for each, and releases them.  Of       *)
(* create_vm this module has what it takes from the configuration: the     *)
(* name, the size of the memory, the serial device and the Linux image.    *)
(***************************************************************************)
EXTENDS VmConfig, LinuxLoader

CONSTANT GranularityBytes   \* what the shifts of get_vm_config_req_bytes multiply by

ASSUME GuestBootAssumption ==
    /\ \A m \in Modules : FileSize[m] \in Nat
    /\ \A g \in mem_granularities : GranularityBytes[g] \in Nat

VARIABLES
    vms   \* name and serial device of the VMs; the last may still be loading

vars == <<config_vars, loader_vars, vms>>

Init == ConfigInit /\ LoaderInit /\ vms = << >>

get_vm_config_req_bytes(c) == c.mem_size * GranularityBytes[c.granularity]

Config == configs[Len(vms) + 1]

VmName == [id |-> fresh, text |-> Config.name.text]

KeepConfigs == UNCHANGED <<file, radix_vars, nr_keys, pos, token_state, curr_line,
                           request, requests, assignee, configs>>

\* create_vm up to the loader.  prepare_env_for_guest dies on other guests.
CreateVm ==
    /\ phase = "configured" /\ load_step = "idle" /\ Len(vms) < Len(configs)
    /\ KeepConfigs
    /\ \/ /\ Config.type # LINUX_DIRECT_BOOT_32BIT
          /\ phase' = "dead"
          /\ UNCHANGED <<loader_vars, heap, fresh, vms>>
       \/ /\ Config.type = LINUX_DIRECT_BOOT_32BIT
          /\ BeginLoad(Config, align_forward(get_vm_config_req_bytes(Config), PAGE_SIZE))
          /\ vms' = Append(vms, [name |-> VmName, uart |-> Config.uart])
          /\ heap' = heap \cup {fresh}
          /\ fresh' = fresh + 1
          /\ UNCHANGED phase

\* Memory, devices, the loader or the registers fail; the NULL that create_vm
\* returns is linked into the list of VMs.
CreateVmFails ==
    /\ phase = "configured"
    /\ \/ load_step = "idle" /\ Len(vms) < Len(configs)
       \/ load_step \in {"failed", "loaded"}
    /\ phase' = "dead"
    /\ KeepConfigs
    /\ UNCHANGED <<loader_vars, heap, fresh, vms>>

Load ==
    /\ phase = "configured"
    /\ \/ LoaderNext
       \/ load_step = "loaded" /\ EndLoad
    /\ UNCHANGED <<config_vars, vms>>

destroy_vm_configs ==
    /\ phase = "configured" /\ load_step = "idle" /\ Len(vms) = Len(configs)
    /\ heap' = heap \ ConfigStringsOfAll(configs)
    /\ configs' = << >>
    /\ phase' = "running"
    /\ UNCHANGED <<file, radix_vars, nr_keys, pos, token_state, curr_line, request,
                   requests, assignee, fresh, loader_vars, vms>>

ReadConfigs == ConfigNext /\ UNCHANGED <<loader_vars, vms>>

Next == ReadConfigs \/ CreateVm \/ CreateVmFails \/ Load \/ destroy_vm_configs

\* One CPU runs hypervisor_main; nothing else touches this state.
Spec == Init /\ [][Next]_vars /\ WF_vars(Next)

-----------------------------------------------------------------------------
(* Properties *)

\* The quotes, which come in pairs.
Quotes(text) == {p \in DOMAIN text : text[p] = QUOTE}

\* The last line is closed, so that no scan has a reason to leave the file.
Closed(text) ==
    text = << >> \/ (text[Len(text)] = LINE_BREAK /\ Cardinality(Quotes(text)) % 2 = 0)

OwnedByRequests == StringsOfAll(requests) \cup StringsOf(request)

OwnedByVms == {vms[i].name.id : i \in DOMAIN vms}

\* No scan of a file whose last line is closed leaves the file, although the
\* loops of mem_file.c do not compare the position they read at with its size.
ScansInsideFile ==
    phase = "parse" /\ Closed(file.text) =>
        LET found == seek_token_in_line(file, pos)
        IN  found.status # PAGE_FAULT /\ found.pos <= Len(file.text) + 1

\* The strings near a key: one of its prefixes, and one letter more.
NearKeys ==
    LET letters == UNION {{key[i] : i \in DOMAIN key} : key \in Range(config_key_strings)}
        prefixes == UNION {{SubSeq(key, 1, n) : n \in 0..Len(key)} :
                           key \in Range(config_key_strings)}
    IN  prefixes \cup {Append(prefix, l) : prefix \in prefixes, l \in letters}

\* After every round of every radix_tree_add, whatever node it has split, the
\* tree finds each key that is in it with its own data, and no other string;
\* and destroy_radix_tree leaves no node behind, wherever it interrupts.
TreeHoldsKeys ==
    /\ phase = "keys" =>
          \A s \in NearKeys, i \in DOMAIN config_key_strings :
              radix_tree_get(1, s, config_key(i)) <=>
                  i <= nr_keys /\ config_key_strings[i] = s
    /\ phase \notin {"keys", "parse", "hung", "dead"} => nodes = << >>

\* Every string that a request, a configuration or a VM points to is live and
\* has one owner: destroy_vm_reqs and destroy_vm_configs, which release the
\* strings of structures that were copied by value, never leave a dangling
\* pointer and never release a string twice.
StringsOwnedOnce ==
    /\ OwnedByRequests \cup ConfigStringsOfAll(configs) \cup OwnedByVms \subseteq heap
    /\ OwnedByRequests \cap ConfigStringsOfAll(configs) = {}
    /\ OwnedByVms \cap (OwnedByRequests \cup ConfigStringsOfAll(configs)) = {}
    /\ StringsOfAll(requests) \cap StringsOf(request) = {}
    /\ \A i, j \in DOMAIN requests : i # j => StringsOf(requests[i]) \cap StringsOf(requests[j]) = {}
    /\ \A i, j \in DOMAIN configs : i # j => ConfigStrings(configs[i]) \cap ConfigStrings(configs[j]) = {}
    /\ \A i, j \in DOMAIN vms : i # j => vms[i].name.id # vms[j].name.id

\* A kernel built as the loader expects: it is loaded at code32_start, above the
\* small parts, and runs at pref_address, there or higher up, as bzImages do;
\* its memory and the VM's end below 4 GB, its command line before the zero page.
ExpectedHeader(h) ==
    /\ ZERO_PAGE_GPADDR + PAGE_SIZE <= h.code32_start /\ h.code32_start <= h.pref_address
    /\ h.pref_address + effective_pm_kernel_load_size(h) <= Uint32Range
    /\ mem_size <= Uint32Range
    /\ COMMAND_LINE_GPADDR + h.cmdline_size < ZERO_PAGE_GPADDR

Holds(start, size, part) == \A a \in Bytes(start, size) : a \in DOMAIN guest_memory /\ guest_memory[a] = part

\* After the last copy the guest finds every part where the loader says it
\* is: no copy has overwritten an earlier one, the kernel has the init_size bytes
\* it unpacks itself to, inside the memory that is announced, for itself.
GuestFindsItsParts ==
    load_step = "loaded" /\ ExpectedHeader(setup_header) =>
        /\ Holds(setup_header.code32_start, declared_pm_kernel_size(setup_header), "kernel")
        /\ Holds(boot_params.ramdisk_image, boot_params.ramdisk_size, "initramfs")
        /\ Holds(boot_params.cmd_line_ptr, strlen(image.cmdline_str) + 1, "command_line")
        /\ Holds(GDT_GPADDR, PAGE_SIZE, "gdt")
        /\ Holds(ZERO_PAGE_GPADDR, PAGE_SIZE, "zero_page")
        /\ \A a \in Bytes(setup_header.pref_address, setup_header.init_size) :
              /\ a < boot_params.e820_size
              /\ a \in DOMAIN guest_memory => guest_memory[a] = "kernel"

\* No copy reaches past the memory of the VM, whatever the header says.
CopiesInsideMemory == DOMAIN guest_memory \subseteq 0..(mem_size - 1)

\* The boot comes to an end: the VMs exist, or it stops for a reason.
BootEnds == <>(phase \in {"running", "unavailable", "failed", "dead", "hung"})
=============================================================================
