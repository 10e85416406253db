------------------------------ MODULE VmConfig ------------------------------
(***************************************************************************)
(* The configuration file of the VMs: vm_config.c turns the text of the    *)
(* file into requests, and the requests into the configurations from which *)
(* hypervisor_main creates the VMs.  MemFile finds the tokens, RadixTree   *)
(* the keys.                                                               *)
(*                                                                         *)
(* Strings on the heap are known by the allocation that made them.  A      *)
(* failing hmalloc of a string keeps the heap's lock, so that the next     *)
(* call of the heap spins for ever: the two are one step, to the phase     *)
(* "hung".  The nodes of the tree have pages of their own, whose failure   *)
(* keeps no lock.                                                          *)
(***************************************************************************)
EXTENDS MemFile, RadixTree

CONSTANTS
    Files,        \* what the configuration file may hold, and the memory behind it
    Modules,      \* the names of the files the bootloader has loaded
    Digits,       \* the decimal tokens, and the numbers they stand for
    UintRange,    \* 2^32
    UlongRange,   \* 2^64
    VecCapacity   \* DEFAULT_VEC_INIT_CAPACITY

CONFIG_SECTION_START == "[start]"
CONFIG_SECTION_END == "[end]"
CONFIG_SECTION_DELIM == "="
Invalid == "SEEK_INVALID_SYMBOL"
EndOfFile == "SEEK_OOM"
NoTokenInLine == "SEEK_NO_TOKEN"

reserved_tokens ==
    {CONFIG_SECTION_START, CONFIG_SECTION_END, CONFIG_SECTION_DELIM}

GUEST_UNSPECIFIED == "GUEST_UNSPECIFIED"
MIRROR_VMM == "MIRROR_VMM"
LINUX_DIRECT_BOOT_32BIT == "LINUX_DIRECT_BOOT_32BIT"
vm_types == {MIRROR_VMM, LINUX_DIRECT_BOOT_32BIT}

mem_granularities == {"bytes", "kb", "mb", "gb"}

INVALID_SERIAL_DEV_ID == 0
SerialDevs == 1..3

NULL == [id |-> 0, text |-> ""]

\* The member of struct vm_request a key with a text value sets.
TextMember ==
    [key \in {"vm.name", "vm.boot.linux.bzimage", "vm.boot.linux.initramfs",
              "vm.boot.linux.cmdline"} |->
        CASE key = "vm.name" -> "name"
          [] key = "vm.boot.linux.bzimage" -> "bzImage_name"
          [] key = "vm.boot.linux.initramfs" -> "initramfs_name"
          [] key = "vm.boot.linux.cmdline" -> "cmdline_str"]

NumberMember ==
    [key \in {"vm.vcpus", "vm.mem.size"} |-> IF key = "vm.vcpus" THEN "vcpus" ELSE "mem_size"]

config_key_strings == <<
    <<"vm", ".", "name">>,
    <<"vm", ".", "type">>,
    <<"vm", ".", "vcpus">>,
    <<"vm", ".", "mem", ".", "size">>,
    <<"vm", ".", "mem", ".", "granularity">>,
    <<"vm", ".", "boot", ".", "linux", ".", "bzimage">>,
    <<"vm", ".", "boot", ".", "linux", ".", "initramfs">>,
    <<"vm", ".", "boot", ".", "linux", ".", "cmdline">>,
    <<"vm", ".", "dev", ".", "serial">> >>

\* A key is known by its name.
config_key(i) == Spelled(config_key_strings[i])

config_keys == {config_key(i) : i \in DOMAIN config_key_strings}

ASSUME VmConfigAssumption ==
    /\ \A f \in Files : f \in [text : Seq(STRING), beyond : Seq(STRING)]
    /\ UintRange \in Nat \ {0} /\ UlongRange \in Nat \ {0}
    /\ VecCapacity \in Nat \ {0}
    /\ \A t \in DOMAIN Digits : Digits[t] \in Nat

VARIABLES
    file,          \* the text of the file, and what lies beyond it; known once it is read
    nr_keys,       \* the keys that are in the tree supported_keys
    pos,           \* f->pos
    token_state,   \* what parse_vm_config_file expects next
    curr_line,     \* the key of the current line
    request,       \* the entry that is being read
    requests,      \* the entries read
    assignee,      \* serial_devices[].assignee
    configs,       \* the result
    heap,          \* the allocations of strings that are live
    fresh,         \* the next allocation
    phase          \* where get_vm_configs is

config_vars == <<file, radix_vars, nr_keys, pos, token_state, curr_line, request, requests,
                 assignee, configs, heap, fresh, phase>>

EmptyRequest(id) ==
    [id |-> id, name |-> NULL, type |-> GUEST_UNSPECIFIED, vcpus |-> 0,
     mem_size |-> 0, granularity |-> "bytes", bzImage_name |-> NULL,
     initramfs_name |-> NULL, cmdline_str |-> NULL,
     serial_id |-> INVALID_SERIAL_DEV_ID]

TextMembers == {TextMember[k] : k \in DOMAIN TextMember}

\* What only the parser and the conversion change.
parser_vars == <<pos, token_state, curr_line, request, requests, assignee,
                 configs, heap, fresh>>

\* The function ends, or goes on with its next part.
Leave(where) ==
    /\ phase' = where
    /\ UNCHANGED <<file, radix_vars, nr_keys, parser_vars>>

\* The strings of a request that are not NULL.
StringsOf(r) == {r[m].id : m \in TextMembers} \ {0}

StringsOfAll(rs) == UNION {StringsOf(rs[i]) : i \in DOMAIN rs}

ConfigInit ==
    /\ file = [text |-> << >>, beyond |-> << >>]
    /\ RadixInit
    /\ nr_keys = 0
    /\ pos = 1
    /\ token_state = "START_MARKER"
    /\ curr_line = "vm.name"
    /\ request = EmptyRequest(0)
    /\ requests = << >>
    /\ assignee = [d \in SerialDevs |-> -1]
    /\ configs = << >>
    /\ heap = {}
    /\ fresh = 1
    /\ phase = "start"

-----------------------------------------------------------------------------
(* Values *)

\* strtoul reports an overflow beyond its range; the conversion to unsigned
\* int keeps the low bits of what is within.
Converted(value) == Digits[value] % UintRange

is_positive_integer(value) ==
    /\ value \in DOMAIN Digits
    /\ Digits[value] < UlongRange
    /\ Converted(value) # 0

\* Mutant: a device that the entry itself has named is refused, too.
SerialFreeForNobody(d) == assignee[d] = -1

SerialFree(d) == assignee[d] \in {-1, request.id}

\* The value is one set_vm_request_val takes for the key.
ValueAccepted(key, value) ==
    \/ key \in DOMAIN TextMember
    \/ key \in DOMAIN NumberMember /\ is_positive_integer(value)
    \/ key = "vm.type" /\ value \in vm_types
    \/ key = "vm.mem.granularity" /\ value \in mem_granularities
    \/ /\ key = "vm.dev.serial"
       /\ is_positive_integer(value)
       /\ Converted(value) \in SerialDevs
       /\ SerialFree(Converted(value))

set_vm_request_val(key, value) ==
    /\ \/ /\ key \in DOMAIN TextMember
          /\ request' = [request EXCEPT ![TextMember[key]] = [id |-> fresh, text |-> value]]
       \/ /\ key \in DOMAIN NumberMember
          /\ request' = [request EXCEPT ![NumberMember[key]] = Converted(value)]
       \/ key = "vm.type" /\ request' = [request EXCEPT !.type = value]
       \/ key = "vm.mem.granularity" /\ request' = [request EXCEPT !.granularity = value]
       \/ key = "vm.dev.serial" /\ request' = [request EXCEPT !.serial_id = Converted(value)]
    /\ IF key \in DOMAIN TextMember
       THEN heap' = heap \cup {fresh} /\ fresh' = fresh + 1
       ELSE UNCHANGED <<heap, fresh>>
    /\ assignee' = IF key = "vm.dev.serial"
                   THEN [assignee EXCEPT ![Converted(value)] = request.id]
                   ELSE assignee

valid_config_request(r) ==
    /\ r.name # NULL
    /\ r.type # GUEST_UNSPECIFIED
    /\ r.vcpus # 0
    /\ r.mem_size # 0
    /\ r.type = LINUX_DIRECT_BOOT_32BIT =>
          r.bzImage_name # NULL /\ r.initramfs_name # NULL

-----------------------------------------------------------------------------
(* parse_vm_config_file: one step for every token, and for every line in   *)
(* which seek_next_token finds none                                        *)

\* found is what seek_token_in_line returns, or the token_ members of parser_state.
AtEnd(found) == found.status = EndOfFile

HasToken(found) == found.status = "SEEK_TOKEN"

Token(found) == Spelled(TokenLetters(file, found))

is_token_equal_to(target, found) == HasToken(found) /\ Token(found) = target

IsOtherToken(target, found) == HasToken(found) /\ Token(found) # target

\* A token that may be a value.
IsValue(found) == HasToken(found) /\ Token(found) \notin reserved_tokens

IsKey(found, key) == radix_tree_get(1, TokenLetters(file, found), key)

Expecting(what) == token_state = what

\* Mutant: the command line is forgotten.
DestroyForgetsCmdline ==
    heap' = heap \ StringsOfAll([i \in DOMAIN requests |->
                                   [requests[i] EXCEPT !.cmdline_str = NULL]])

destroy_vm_reqs == heap' = heap \ StringsOfAll(requests)

\* The strings of the entry that is being read are not released.
ParsingError ==
    /\ destroy_vm_reqs
    /\ requests' = << >>
    /\ destroy_radix_tree
    /\ phase' = "failed"
    /\ UNCHANGED <<file, nr_keys, pos, token_state, curr_line, request, assignee,
                   configs, fresh>>

Expect(found, what) ==
    /\ pos' = found.pos
    /\ token_state' = what
    /\ UNCHANGED <<file, radix_vars, nr_keys, configs>>

InvalidSymbol(found) == found.status = Invalid /\ ParsingError

\* The scan leaves the memory that is mapped.
ScanFaults(found) == found.status = PAGE_FAULT /\ Leave("dead")

handle_search_start_marker(found) ==
    /\ Expecting("START_MARKER")
    /\ \/ /\ AtEnd(found)
          /\ phase' = "convert"
          /\ destroy_radix_tree
          /\ UNCHANGED <<file, nr_keys, pos, token_state, curr_line, request, requests,
                         assignee, configs, heap, fresh>>
       \/ /\ is_token_equal_to(CONFIG_SECTION_START, found)
          /\ Expect(found, "CONFIG_ENTRY_START")
          /\ UNCHANGED <<curr_line, request, requests, assignee, heap, fresh, phase>>
       \/ IsOtherToken(CONFIG_SECTION_START, found) /\ ParsingError

\* Mutant: the members of the previous entry are kept.
NextRequestKeeps == [request EXCEPT !.id = request.id + 1]

NextRequest == EmptyRequest(request.id + 1)

\* PS_CONFIG_ENTRY_COMPLETED: push_back dies when the vector is full.
CompleteEntry(found) ==
    \/ ~ valid_config_request(request) /\ ParsingError
    \/ /\ valid_config_request(request)
       /\ Len(requests) >= VecCapacity
       /\ Leave("dead")
    \/ /\ valid_config_request(request)
       /\ Len(requests) < VecCapacity
       /\ requests' = Append(requests, request)
       /\ request' = NextRequest
       /\ Expect(found, "START_MARKER")
       /\ UNCHANGED <<curr_line, assignee, heap, fresh, phase>>

handle_search_config_entry_start(found) ==
    /\ Expecting("CONFIG_ENTRY_START")
    /\ \/ AtEnd(found) /\ ParsingError
       \/ is_token_equal_to(CONFIG_SECTION_END, found) /\ CompleteEntry(found)
       \/ /\ IsOtherToken(CONFIG_SECTION_END, found)
          /\ \E key \in config_keys : IsKey(found, key) /\ curr_line' = key
          /\ Expect(found, "ENTRY_DELIM")
          /\ UNCHANGED <<request, requests, assignee, heap, fresh, phase>>
       \/ /\ IsOtherToken(CONFIG_SECTION_END, found)
          /\ ~ \E key \in config_keys : IsKey(found, key)
          /\ ParsingError

\* Mutant: the end of the file is not noticed.
DelimWaitsAtEnd(found) ==
    /\ Expecting("ENTRY_DELIM")
    /\ \/ /\ is_token_equal_to(CONFIG_SECTION_DELIM, found)
          /\ Expect(found, "ENTRY_VAL")
          /\ UNCHANGED <<curr_line, request, requests, assignee, heap, fresh, phase>>
       \/ IsOtherToken(CONFIG_SECTION_DELIM, found) /\ ParsingError

handle_search_delim(found) ==
    /\ Expecting("ENTRY_DELIM")
    /\ \/ /\ is_token_equal_to(CONFIG_SECTION_DELIM, found)
          /\ Expect(found, "ENTRY_VAL")
          /\ UNCHANGED <<curr_line, request, requests, assignee, heap, fresh, phase>>
       \/ /\ AtEnd(found) \/ IsOtherToken(CONFIG_SECTION_DELIM, found)
          /\ ParsingError

handle_search_value(found) ==
    /\ Expecting("ENTRY_VAL")
    /\ \/ /\ IsValue(found)
          /\ ValueAccepted(curr_line, Token(found))
          /\ set_vm_request_val(curr_line, Token(found))
          /\ Expect(found, "CONFIG_ENTRY_START")
          /\ UNCHANGED <<curr_line, requests, phase>>
       \/ /\ ~ (IsValue(found) /\ ValueAccepted(curr_line, Token(found)))
          /\ ParsingError

\* seek_next_token goes on behind the line break.
SkipLine(found) ==
    /\ found.status = NoTokenInLine
    /\ pos' = seek_newline(file, found.pos)
    /\ UNCHANGED <<file, radix_vars, nr_keys, token_state, curr_line, request, requests,
                   assignee, configs, heap, fresh, phase>>

HandleToken(found) ==
    /\ AtEnd(found) \/ HasToken(found)
    /\ \/ handle_search_start_marker(found)
       \/ handle_search_config_entry_start(found)
       \/ handle_search_delim(found)
       \/ handle_search_value(found)

ParseToken ==
    /\ phase = "parse"
    /\ \E found \in {seek_token_in_line(file, pos)} :
          \/ SkipLine(found)
          \/ InvalidSymbol(found)
          \/ ScanFaults(found)
          \/ HandleToken(found)

-----------------------------------------------------------------------------
(* get_vm_requests and get_vm_configs *)

\* create_radix_tree, unless there is no file or no memory.
get_vm_requests ==
    /\ phase = "start"
    /\ \/ Leave("unavailable")
       \/ /\ phase' = "keys"
          /\ create_radix_tree
          /\ UNCHANGED <<file, nr_keys, parser_vars>>

\* get_config_key_radix adds one key after the other.
AddKey ==
    /\ phase = "keys" /\ nr_keys < Len(config_key_strings)
    /\ \/ node = 0 /\ radix_tree_add(config_key_strings[nr_keys + 1]) /\ UNCHANGED nr_keys
       \/ node # 0 /\ AddRound /\ UNCHANGED nr_keys
       \/ node # 0 /\ Terminate(config_key(nr_keys + 1)) /\ nr_keys' = nr_keys + 1
    /\ UNCHANGED <<file, phase, parser_vars>>

\* A node that cannot be allocated ends get_config_key_radix.  A prefix that
\* cannot is NULL, and keeps the lock: the next key reads it, or spins.
NoKeyMemory ==
    /\ phase = "keys" /\ NeedsNode
    /\ \/ Leave("hung")
       \/ /\ destroy_radix_tree
          /\ phase' = "unavailable"
          /\ UNCHANGED <<file, nr_keys, parser_vars>>

\* Without the vector of requests the tree is released, unless it is the
\* struct that failed, which comes from a bin: then hfree spins.
CreateRequests ==
    /\ phase = "keys" /\ nr_keys = Len(config_key_strings)
    /\ \/ /\ phase' = "parse"
          /\ file' \in Files
          /\ UNCHANGED <<radix_vars, nr_keys, parser_vars>>
       \/ Leave("hung")
       \/ /\ destroy_radix_tree
          /\ phase' = "unavailable"
          /\ UNCHANGED <<file, nr_keys, parser_vars>>

NoMemory ==
    /\ \/ /\ phase = "parse" /\ Expecting("ENTRY_VAL")
          /\ curr_line \in DOMAIN TextMember
          /\ IsValue(seek_token_in_line(file, pos))
       \/ phase = "convert" /\ Len(configs) < Len(requests)
    /\ Leave("hung")

\* Mutant: the configuration points to the name of the request.
NameShared(r) == r.name

NameCopy(r) == [id |-> fresh, text |-> r.name.text]

\* vm_req_to_vm_config, when it succeeds.
vm_req_to_vm_config(r) ==
    LET linux == r.type = LINUX_DIRECT_BOOT_32BIT IN
    [name |-> NameCopy(r),
     type |-> r.type,
     nr_vcpus |-> r.vcpus,
     mem_size |-> r.mem_size,
     granularity |-> r.granularity,
     uart |-> r.serial_id,
     bzImage |-> IF linux THEN r.bzImage_name.text ELSE "",
     initramfs |-> IF linux THEN r.initramfs_name.text ELSE "",
     cmdline_str |-> IF linux THEN [id |-> fresh + 1, text |-> r.cmdline_str.text]
                     ELSE NULL]

ConfigStrings(c) == {c.name.id, c.cmdline_str.id} \ {0}

ConfigStringsOfAll(cs) == UNION {ConfigStrings(cs[i]) : i \in DOMAIN cs}

FilesFound(r) ==
    r.type = LINUX_DIRECT_BOOT_32BIT =>
        {r.bzImage_name.text, r.initramfs_name.text} \subseteq Modules

\* strdup_nt(NULL) reads the string at address 0.
NoCommandLine(r) ==
    r.type = LINUX_DIRECT_BOOT_32BIT /\ FilesFound(r) /\ r.cmdline_str = NULL

ConvertRequest ==
    LET r == requests[Len(configs) + 1] IN
    /\ phase = "convert" /\ Len(configs) < Len(requests)
    /\ \/ /\ ~ FilesFound(r)
          /\ heap' = heap \ (ConfigStringsOfAll(configs) \cup StringsOfAll(requests))
          /\ configs' = << >>
          /\ requests' = << >>
          /\ phase' = "failed"
          /\ UNCHANGED fresh
       \/ /\ NoCommandLine(r)
          /\ phase' = "dead"
          /\ UNCHANGED <<configs, requests, heap, fresh>>
       \/ /\ FilesFound(r) /\ ~ NoCommandLine(r)
          /\ configs' = Append(configs, vm_req_to_vm_config(r))
          /\ heap' = heap \cup ConfigStrings(vm_req_to_vm_config(r))
          /\ fresh' = fresh + 2
          /\ UNCHANGED <<requests, phase>>
    /\ UNCHANGED <<file, radix_vars, nr_keys, pos, token_state, curr_line, request,
                   assignee>>

\* No pages for the vector of configurations.
NoConfigVector ==
    /\ phase = "convert" /\ configs = << >> /\ requests # << >>
    /\ destroy_vm_reqs
    /\ requests' = << >>
    /\ phase' = "unavailable"
    /\ UNCHANGED <<file, radix_vars, nr_keys, pos, token_state, curr_line, request,
                   assignee, configs, fresh>>

FinishConfigs ==
    /\ phase = "convert" /\ Len(configs) = Len(requests)
    /\ destroy_vm_reqs
    /\ requests' = << >>
    /\ phase' = IF requests = << >> THEN "failed" ELSE "configured"
    /\ UNCHANGED <<file, radix_vars, nr_keys, pos, token_state, curr_line, request,
                   assignee, configs, fresh>>

ConfigNext ==
    \/ get_vm_requests
    \/ AddKey
    \/ NoKeyMemory
    \/ CreateRequests
    \/ ParseToken
    \/ NoMemory
    \/ NoConfigVector
    \/ ConvertRequest
    \/ FinishConfigs
=============================================================================
