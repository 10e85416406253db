---------------------------- MODULE MCGuestBoot ----------------------------
(***************************************************************************)
(* An instance of GuestBoot.  The files are: every selection of the lines  *)
(* of a Linux entry, one value or one more line changed in it, entries     *)
(* side by side, damaged files, every short arrangement of letters as a    *)
(* value, strings that are nearly keys, and files whose last line is open, *)
(* with other things behind them.  Numbers have 6 bits in an unsigned      *)
(* int and 7 in an unsigned long; the guest's memory has some 16 bytes in  *)
(* pages of 2, and addresses have 5 bits in the zero page, 6 elsewhere.    *)
(***************************************************************************)
EXTENDS ConfigMeaning

MCDigits ==
    "0" :> 0 @@ "1" :> 1 @@ "2" :> 2 @@ "4" :> 4 @@ "8" :> 8 @@ "14" :> 14 @@
    "16" :> 16 @@ "17" :> 17 @@ "20" :> 20 @@ "64" :> 64 @@ "65" :> 65 @@ "128" :> 128

MCModules == {"kernel", "small", "large", "ramdisk"}

MCFileSize == "kernel" :> 8 @@ "small" :> 3 @@ "large" :> 14 @@ "ramdisk" :> 2

MCStringLen == "quiet" :> 1 @@ "verbose" :> 3

MCGranularityBytes == "bytes" :> 1 @@ "kb" :> 2 @@ "mb" :> 4 @@ "gb" :> 8

LinuxLines == <<
    <<"vm.name", "linux">>, <<"vm.type", LINUX_DIRECT_BOOT_32BIT>>,
    <<"vm.vcpus", "1">>, <<"vm.mem.size", "8">>, <<"vm.mem.granularity", "kb">>,
    <<"vm.boot.linux.bzimage", "kernel">>, <<"vm.boot.linux.initramfs", "ramdisk">>,
    <<"vm.boot.linux.cmdline", "quiet">>, <<"vm.dev.serial", "1">> >>

MirrorLines == <<
    <<"vm.name", "mirror">>, <<"vm.type", MIRROR_VMM>>,
    <<"vm.vcpus", "2">>, <<"vm.mem.size", "16">> >>

OtherLines ==
    {"vm.name"} \X {"other", CONFIG_SECTION_START}
    \cup {"vm.type"} \X {MIRROR_VMM, "bogus"}
    \cup {"vm.vcpus"} \X {"0", "64", "65", "128", "bogus"}
    \cup {"vm.mem.size"} \X {"0", "4", "14", "17", "20"}
    \cup {"vm.mem.granularity"} \X {"mb", "bogus"}
    \cup {"vm.boot.linux.bzimage"} \X {"small", "large", "missing"}
    \cup {"vm.boot.linux.initramfs"} \X {"large", "missing"}
    \cup {"vm.boot.linux.cmdline"} \X {"verbose"}
    \cup {"vm.dev.serial"} \X {"0", "1", "2", "4", "65", "bogus"}

Section(lines) ==
    <<CONFIG_SECTION_START>>
        \o FlattenSeq([i \in DOMAIN lines |-> <<lines[i][1], CONFIG_SECTION_DELIM, lines[i][2]>>])
        \o <<CONFIG_SECTION_END>>

With(lines, line) ==
    [i \in DOMAIN lines |-> IF lines[i][1] = line[1] THEN line ELSE lines[i]]

Selections ==
    {Section(SelectSeq(LinuxLines, LAMBDA l : l \in lines)) :
        lines \in SUBSET {LinuxLines[i] : i \in DOMAIN LinuxLines}}

Variations ==
    {Section(With(LinuxLines, l)) : l \in OtherLines}
    \cup {Section(Append(LinuxLines, l)) : l \in OtherLines}
    \cup {Section(Reverse(LinuxLines))}

Entries ==
    {Section(LinuxLines), Section(With(LinuxLines, <<"vm.dev.serial", "2">>)),
     Section(SubSeq(LinuxLines, 1, 8)), Section(MirrorLines),
     Section(Append(MirrorLines, <<"vm.dev.serial", "1">>)),
     Section(Tail(MirrorLines)),
     Section(MirrorLines \o << <<"vm.dev.serial", "1">>, <<"vm.dev.serial", "2">> >>)}

SideBySide ==
    {a \o b : a \in Entries, b \in Entries}
    \cup {Section(MirrorLines) \o Section(MirrorLines) \o Section(MirrorLines)}

Damaged ==
    LET whole == Section(MirrorLines) \o Section(MirrorLines) IN
    {SubSeq(whole, 1, n) : n \in 0..Len(whole)}
    \cup {[whole EXCEPT ![p] = token] :
            p \in 1..(Len(whole) \div 2 + 1),
            token \in reserved_tokens \cup {"vm.name", "bogus", Invalid}}

\* The letters of a token.
Letters(token) ==
    IF token \in config_keys
    THEN config_key_strings[CHOOSE i \in DOMAIN config_key_strings : config_key(i) = token]
    ELSE IF token = Invalid THEN <<Other>>
    ELSE <<token>>

\* A token to a line, and a blank around a delimiter.
Render(tokens) ==
    FlattenSeq([i \in DOMAIN tokens |->
        LET after == IF i < Len(tokens) THEN tokens[i + 1] ELSE ""
        IN  Letters(tokens[i]) \o
                IF CONFIG_SECTION_DELIM \in {after, tokens[i]} THEN <<" ">> ELSE <<LINE_BREAK>>])

InFile(text) == [text |-> text, beyond |-> << >>]

\* Every arrangement of up to three letters as the name of a VM.
Alphabet == {"word", " ", LINE_BREAK, "=", QUOTE, Other}

Named(name) ==
    LET lines == Section(Tail(MirrorLines)) IN
    Render(<<CONFIG_SECTION_START>>) \o Letters("vm.name") \o <<"=">> \o name
        \o <<LINE_BREAK>> \o Render(Tail(lines))

Arrangements ==
    {Named(name) : name \in SeqOf(Alphabet, 3)}
    \cup {Named(<<QUOTE, "1", QUOTE>>), Named(<<QUOTE, "two", "\t", "words", QUOTE, "\r">>),
          Named(<<QUOTE, "[start]", QUOTE>>)}

\* Keys that are nearly keys.
NearlyKeys ==
    {Render(<<CONFIG_SECTION_START>>) \o key \o <<"=", "linux", LINE_BREAK>> :
        key \in {<<"vm">>, <<"vm", ".">>, <<"vm", ".", "mem">>, <<"vm", ".", "names">>,
                 <<"vm", ".", "name", ".">>, <<"name">>}}

\* The last line is not closed, and other things lie beyond the file.
Open ==
    LET text == Render(Section(MirrorLines)) IN
    {[text |-> SubSeq(text, 1, n), beyond |-> beyond] :
        n \in (Len(text) - 4)..(Len(text) - 1),
        beyond \in {<< >>, <<Other>>, <<LINE_BREAK>>, <<"word", LINE_BREAK>>,
                    <<"[end]", LINE_BREAK>>, Render(Section(MirrorLines))}}
    \cup {[text |-> Named(<<QUOTE, "word">>), beyond |-> beyond] :
            beyond \in {<< >>, <<QUOTE>>, <<QUOTE>> \o text}}

AllFiles ==
    {InFile(Render(tokens)) : tokens \in Selections \cup Variations \cup SideBySide \cup Damaged}
    \cup {InFile(text) : text \in Arrangements \cup NearlyKeys}
    \cup Open

MCFiles == AllFiles

Header ==
    [boot_flag |-> TRUE, signature |-> TRUE, jump |-> TRUE, version |-> 527,
     loaded_high |-> TRUE, setup_sects |-> 1, syssize |-> 1, code32_start |-> 8,
     init_size |-> 5, pref_address |-> 8, cmdline_size |-> 1]

MCHeaders ==
    {Header}
    \cup {[Header EXCEPT ![flag] = FALSE] :
            flag \in {"boot_flag", "signature", "jump", "loaded_high"}}
    \cup {[Header EXCEPT !.version = v] : v \in {511, 512}}
    \cup {[Header EXCEPT !.setup_sects = n] : n \in {0, 5}}
    \cup {[Header EXCEPT !.syssize = n] : n \in {0, 2, 3}}
    \cup {[Header EXCEPT !.code32_start = a] : a \in {0, 4, 15}}
    \cup {[Header EXCEPT !.init_size = n] : n \in {1, 10}}
    \cup {[Header EXCEPT !.pref_address = a] : a \in {10, 28, 63}}
    \cup {[Header EXCEPT !.code32_start = a, !.pref_address = a] : a \in {10, 26}}
    \cup {[Header EXCEPT !.cmdline_size = n] : n \in {0, 3}}
=============================================================================
