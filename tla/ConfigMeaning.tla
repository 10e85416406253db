--------------------------- MODULE ConfigMeaning ---------------------------
(***************************************************************************)
(* What a configuration file means, defined from its text alone: its       *)
(* tokens by the positions of their letters, its sections and values by    *)
(* the positions of the tokens.  The configurations that GuestBoot reads   *)
(* are compared with it.                                                   *)
(***************************************************************************)
EXTENDS GuestBoot, SequencesExt

-----------------------------------------------------------------------------
(* What the file says: its tokens by the positions of their letters *)

\* A letter between the two quotes of a pair.
IsQuoted(text, p) ==
    text[p] # QUOTE /\ Cardinality({q \in Quotes(text) : q < p}) % 2 = 1

\* A quote that opens a pair.
Opens(text, p) == text[p] = QUOTE /\ Cardinality({q \in Quotes(text) : q < p}) % 2 = 0

IsPlain(text, p) == is_valid_config_token_char(text[p]) /\ ~ IsQuoted(text, p)

\* The nearest position of S that is not before p.
Nearest(p, S) == CHOOSE q \in S : q >= p /\ \A r \in S : r >= p => q <= r

\* All that is between two quotes.
QuotedRanges(text) ==
    {<<p + 1, Nearest(p + 1, Quotes(text)) - 1>> : p \in {q \in DOMAIN text : Opens(text, q)}}

\* A delimiter, or as many valid letters as there are in a row.
PlainRanges(text) ==
    LET plain == {p \in DOMAIN text : IsPlain(text, p)}
        last == {p \in plain : p + 1 \notin plain}
    IN  {<<p, p>> : p \in {q \in DOMAIN text : is_config_delim(text[q]) /\ ~ IsQuoted(text, q)}}
        \cup {<<p, Nearest(p, last)>> : p \in {q \in plain : q - 1 \notin plain}}

TextOf(text, range) == Spelled(SubSeq(text, range[1], range[2]))

\* No letter of no class, no quote in a word, and more than one character
\* between quotes, as seek_token_in_line demands.
Lexical(text) ==
    /\ \A p \in DOMAIN text : text[p] = Other => IsQuoted(text, p)
    /\ \A p \in DOMAIN text : Opens(text, p) /\ p > 1 => ~ IsPlain(text, p - 1)
    /\ \A range \in QuotedRanges(text) : Len(TextOf(text, range)) > 1

Tokens(text) ==
    LET ranges == PlainRanges(text) \cup QuotedRanges(text)
        Begin(p) == {TextOf(text, range) : range \in {r \in ranges : r[1] = p}}
    IN  FlattenSeq([p \in DOMAIN text |-> SetToSeq(Begin(p))])

-----------------------------------------------------------------------------
(* What the tokens t say, by their positions *)

IsStart(t, p) == t[p] = CONFIG_SECTION_START

\* The section a position belongs to, and its place in the section's lines:
\* 1 for a key or the end, 2 for the delimiter, 0 for a value.
SectionOf(t, p) == Cardinality({q \in 1..p : IsStart(t, q)})

PlaceOf(t, p) ==
    LET start == CHOOSE q \in 1..p : IsStart(t, q) /\ \A r \in (q + 1)..p : ~ IsStart(t, r)
    IN  (p - start) % 3

WellFormed(t) ==
    /\ t # << >> /\ IsStart(t, 1) /\ t[Len(t)] = CONFIG_SECTION_END
    /\ \A p \in DOMAIN t :
          /\ IsStart(t, p) <=> (p = 1 \/ t[p - 1] = CONFIG_SECTION_END)
          /\ t[p] = CONFIG_SECTION_END => PlaceOf(t, p) = 1
          /\ PlaceOf(t, p) = 1 => t[p] \in config_keys \cup {CONFIG_SECTION_END}
          /\ t[p] = CONFIG_SECTION_DELIM <=> PlaceOf(t, p) = 2

NrSections(t) == Cardinality({p \in DOMAIN t : IsStart(t, p)})

\* Where section n has a line with the key.
LinesOf(t, n, key) ==
    {p \in DOMAIN t : t[p] = key /\ SectionOf(t, p) = n /\ PlaceOf(t, p) = 1}

LastValue(t, n, key, default) ==
    LET lines == LinesOf(t, n, key) IN
    IF lines = {} THEN default
    ELSE t[(CHOOSE p \in lines : \A q \in lines : q <= p) + 2]

NumberKeys == {"vm.vcpus", "vm.mem.size", "vm.dev.serial"}

\* Every value is one of its kind, a number positive (is_positive_integer; the
\* messages say "greater than 1"), and every serial device is named by one
\* section only.
ValuesProper(t) ==
    \A n \in 1..NrSections(t), key \in config_keys : \A p \in LinesOf(t, n, key) :
        LET value == t[p + 2]
        IN  /\ key \in NumberKeys => value \in DOMAIN Digits /\ Digits[value] >= 1
            /\ key = "vm.type" => value \in vm_types
            /\ key = "vm.mem.granularity" => value \in mem_granularities
            /\ key = "vm.dev.serial" =>
                  /\ Digits[value] \in SerialDevs
                  /\ \A m \in (1..NrSections(t)) \ {n} : \A q \in LinesOf(t, m, key) :
                        Digits[t[q + 2]] # Digits[value]

\* Some number does not fit the unsigned int it is stored in.
HasWideNumber(t) ==
    \E n \in 1..NrSections(t), key \in NumberKeys : \E p \in LinesOf(t, n, key) :
        t[p + 2] \in DOMAIN Digits /\ Digits[t[p + 2]] >= UintRange

Complete(t, n) ==
    LET needs == {"vm.name", "vm.type", "vm.vcpus", "vm.mem.size"}
        linux == {"vm.boot.linux.bzimage", "vm.boot.linux.initramfs"}
    IN  /\ \A key \in needs : LinesOf(t, n, key) # {}
        /\ LastValue(t, n, "vm.type", "") = LINUX_DIRECT_BOOT_32BIT =>
              \A key \in linux : /\ LinesOf(t, n, key) # {}
                                 /\ LastValue(t, n, key, "") \in Modules

Sound(t) == ValuesProper(t) /\ \A n \in 1..NrSections(t) : Complete(t, n)

-----------------------------------------------------------------------------
(* Properties *)

JustConfigured == phase = "configured" /\ load_step = "idle" /\ vms = << >>

\* get_vm_configs has come to an end.
JustRead == JustConfigured \/ phase \in {"failed", "dead"}

\* The configurations say what the text says: one per section, in order, each
\* with the last value its section gives for a key, and nothing of another
\* section (the request is cleared after every entry), with the tokens cut as
\* the character classes and the quotes of the text say.  Numbers agree in the
\* bits of an unsigned int: what set_vm_request_val cuts off is not compared.
ConfigsMeanFile ==
    JustConfigured /\ Closed(file.text) => \A t \in {Tokens(file.text)} :
        /\ Lexical(file.text) /\ WellFormed(t)
        /\ Len(configs) = NrSections(t)
        /\ \A n \in 1..NrSections(t) :
              /\ configs[n].name.text = LastValue(t, n, "vm.name", "")
              /\ configs[n].type = LastValue(t, n, "vm.type", "")
              /\ configs[n].nr_vcpus = Digits[LastValue(t, n, "vm.vcpus", "0")] % UintRange
              /\ configs[n].mem_size = Digits[LastValue(t, n, "vm.mem.size", "0")] % UintRange
              /\ configs[n].granularity = LastValue(t, n, "vm.mem.granularity", "bytes")
              /\ configs[n].uart = Digits[LastValue(t, n, "vm.dev.serial", "0")] % UintRange
              /\ configs[n].type = LINUX_DIRECT_BOOT_32BIT =>
                    /\ configs[n].bzImage = LastValue(t, n, "vm.boot.linux.bzimage", "")
                    /\ configs[n].initramfs = LastValue(t, n, "vm.boot.linux.initramfs", "")
                    /\ configs[n].cmdline_str.text = LastValue(t, n, "vm.boot.linux.cmdline", "")

\* A file is turned down exactly when it has no section, is not a sequence of
\* sections, or has a section with an improper value or without a value it
\* needs; repeated keys and any order of the lines are accepted.  Not so with a
\* number that an unsigned int cannot hold, of which set_vm_request_val looks at
\* the low bits only: 2^32 is refused for a size, 2^32 + 1 taken for 1.  Reading
\* the file ends the boot only if a Linux section has no command line, which
\* get_linux_boot_info copies all the same, or the vector of requests is full.
RejectsOnlyBad ==
    JustRead /\ Closed(file.text) => \A t \in {Tokens(file.text)} :
        /\ phase = "failed" /\ Lexical(file.text) /\ WellFormed(t) /\ Sound(t) => HasWideNumber(t)
        /\ JustConfigured => Sound(t) \/ HasWideNumber(t)
        /\ phase = "dead" /\ requests # << >> =>
              \/ NrSections(t) > VecCapacity
              \/ \E n \in 1..NrSections(t) :
                    /\ LastValue(t, n, "vm.type", "") = LINUX_DIRECT_BOOT_32BIT
                    /\ LinesOf(t, n, "vm.boot.linux.cmdline") = {}

\* The number of strings that a repeated key has overwritten.
Overwritten(t) ==
    Cardinality({p \in DOMAIN t :
        /\ PlaceOf(t, p) = 1 /\ t[p] \in DOMAIN TextMember
        /\ \E q \in LinesOf(t, SectionOf(t, p), t[p]) : q > p})

\* When the VMs are created nothing of the configuration is left on the heap:
\* the live strings are the names of the VMs and the strings that a repeated
\* key has replaced, which set_vm_request_val does not release.
NothingLeaked ==
    phase = "running" /\ Closed(file.text) => \A t \in {Tokens(file.text)} :
        /\ OwnedByVms \subseteq heap
        /\ Cardinality(heap) = Len(vms) + Overwritten(t)
=============================================================================
