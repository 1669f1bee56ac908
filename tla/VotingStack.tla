----------------------------- MODULE VotingStack -----------------------------
(***************************************************************************)
(* How an image is opened: load_as (utils.py) stacks address spaces on top *)
(* of each other in voting rounds.  A round offers the current top of the  *)
(* stack to every address space class in the order of their order          *)
(* attribute (ties in the order of a Python dictionary, that is, any); the *)
(* first class whose __init__ does not raise becomes the new top and a new *)
(* round starts.  A round in which nobody accepts ends the voting.         *)
(*                                                                         *)
(* An image is described by what the constructors look at: where it is,    *)
(* the file format headers found at physical address 0, each wrapping the  *)
(* next, what the profile supports, the directory table bases (DTB) that   *)
(* headers and the DTB scan give, and which paging classes pass their      *)
(* validity check with the right DTB.                                      *)
(***************************************************************************)
EXTENDS Integers, Sequences, FiniteSets

CONSTANTS
    Images,     \* the images (records, see ImageAssumption) that may be opened
    Dtbs,       \* values of a directory table base
    PyNone      \* Python's None

Direct  == {"FileAddressSpace", "FirewireAddressSpace"}
Formats == {"MachOAddressSpace", "LimeAddressSpace",
            "WindowsHiberFileSpace32", "WindowsCrashDumpSpace32",
            "WindowsCrashDumpSpace64", "HPAKAddressSpace",
            "VirtualBoxCoreDumpElf64", "VMWareSnapshotFile"}
Paging  == {"IA32PagedMemory", "IA32PagedMemoryPae", "AMD64PagedMemory",
            "ArmAddressSpace"}
Classes == Direct \cup Formats \cup Paging

\* The formats whose header records the DTB.
HeaderHasDtb == {"WindowsHiberFileSpace32", "WindowsCrashDumpSpace32",
                 "WindowsCrashDumpSpace64", "VMWareSnapshotFile"}

Locations == {"file", "missing", "firewire", "unset"}

AsTypes == {"virtual", "physical", "any"}

ASSUME ImageAssumption ==
    Images \subseteq
        [location : Locations,      \* config.LOCATION
         layers   : Seq(Formats),   \* headers at address 0, outermost first
         supports : SUBSET Classes, \* is_valid_profile, has_type of the header
         header   : Dtbs,           \* the DTB the headers record
         scan     : Dtbs \cup {PyNone}, \* what VolMagic(base).DTB.v() finds
         user     : Dtbs \cup {PyNone}, \* config.DTB
         right    : Dtbs,           \* the DTB of the kernel
         passes   : SUBSET Paging]  \* whose check succeeds with that DTB

ASSUME NoneAssumption == PyNone \notin Dtbs \cup Formats

VARIABLES
    image,      \* the image being opened
    astype,     \* the kind of address space the plugin asks for
    stack,      \* bottom first: the class of each layer and its dtb attribute
    untried,    \* classes not yet tried in this round
    pc,         \* "vote" or "done"
    result      \* "pending", "base_as" or "AddrSpaceError"

voteVars == <<image, astype, stack, untried, pc, result>>

\* Slip: hibernation files are tried after the paging classes.
OrderHibernateLate(c) ==
    CASE c \in {"IA32PagedMemoryPae", "AMD64PagedMemory"}  -> 60
      [] c = "IA32PagedMemory"                             -> 70
      [] c = "WindowsHiberFileSpace32"                     -> 80
      [] c \in Direct                                      -> 100
      [] c = "ArmAddressSpace"                             -> 800
      [] OTHER                                             -> 30

\* The attribute order.
Order(c) ==
    CASE c = "MachOAddressSpace"       -> 1
      [] c = "LimeAddressSpace"        -> 2
      [] c = "WindowsHiberFileSpace32" -> 10
      [] c \in {"IA32PagedMemoryPae", "AMD64PagedMemory"} -> 60
      [] c = "IA32PagedMemory"         -> 70
      [] c = "FirewireAddressSpace"    -> 99
      [] c = "FileAddressSpace"        -> 100
      [] c = "ArmAddressSpace"         -> 800
      [] OTHER                         -> 30

------------------------------------------------------------------------------
(* What each constructor demands.                                          *)

Top     == stack[Len(stack)]
HasBase == stack # <<>>

\* FileAddressSpace and FirewireAddressSpace go to the bottom, nowhere else.
DirectAccepts(c) ==
    /\ ~HasBase
    /\ c \in image.supports
    /\ image.location = IF c = "FileAddressSpace" THEN "file" ELSE "firewire"

\* Slip: every format looks at the outermost header.
ShownOutermost == IF image.layers = <<>> THEN PyNone ELSE Head(image.layers)

\* What the top shows at address 0: the first header nobody has unwrapped.
\* Nothing is a header at virtual address 0.
Shown ==
    IF HasBase /\ Top.cls \notin Paging /\ Len(stack) <= Len(image.layers)
    THEN image.layers[Len(stack)]
    ELSE PyNone

\* A format class demands a base with its signature, a profile with the types
\* of the header, and HPAK, which is a FileAddressSpace, a file location.
FormatAccepts(c) ==
    /\ HasBase
    /\ c \in image.supports
    /\ Shown = c
    /\ c = "HPAKAddressSpace" => image.location = "file"

\* Where AbstractPagedMemory.__init__ gets past its first assertions.
ReachesLoadDtb(c) ==
    /\ HasBase
    /\ c \in image.supports
    /\ astype \in {"virtual", "any"}
    /\ Top.cls \notin Paging

\* Slip: the dtb attribute of the base wins over the user's.
MustFindDtbIgnoringUser == Top.dtb = PyNone

\* load_dtb: self.base.dtb is good enough unless it is missing or the user
\* gave a DTB.
MustFindDtb == Top.dtb = PyNone \/ image.user # PyNone

\* VolMagic(self.base).DTB.v(): the configured value, or a scan.
FoundDtb == IF image.user # PyNone THEN image.user ELSE image.scan

LoadDtb == IF MustFindDtb THEN FoundDtb ELSE Top.dtb

PagingAccepts(c) ==
    /\ ReachesLoadDtb(c)
    /\ LoadDtb # PyNone
    /\ LoadDtb = image.right /\ c \in image.passes

Accepts(c) ==
    \/ c \in Direct  /\ DirectAccepts(c)
    \/ c \in Formats /\ FormatAccepts(c)
    \/ c \in Paging  /\ PagingAccepts(c)

\* load_dtb: "Make sure to save dtb for other AS's", before anything about it
\* has been checked.
SavedDtb(c) ==
    IF c \in Paging /\ ReachesLoadDtb(c) /\ MustFindDtb /\ FoundDtb # PyNone
    THEN [stack EXCEPT ![Len(stack)].dtb = FoundDtb]
    ELSE stack

LayerDtb(c) ==
    IF c \in Paging THEN LoadDtb
    ELSE IF c \in HeaderHasDtb THEN image.header ELSE PyNone

------------------------------------------------------------------------------
VoteInit ==
    /\ image \in Images
    /\ astype \in AsTypes
    /\ stack = <<>>
    /\ untried = Classes
    /\ pc = "vote"
    /\ result = "pending"

NextInOrder(c) ==
    /\ pc = "vote"
    /\ c \in untried
    /\ \A d \in untried : Order(c) <= Order(d)

\* cls(base_as, config, ...) succeeds: found = True, break.
Stack(c) ==
    /\ NextInOrder(c)
    /\ Accepts(c)
    /\ stack' = Append(SavedDtb(c), [cls |-> c, dtb |-> LayerDtb(c)])
    /\ untried' = Classes
    /\ UNCHANGED <<image, astype, pc, result>>

\* Slip: a class that raises is offered the same base again.
RefuseAgain(c) ==
    /\ NextInOrder(c)
    /\ ~Accepts(c)
    /\ stack' = SavedDtb(c)
    /\ UNCHANGED <<image, astype, untried, pc, result>>

\* It raises ASAssertionError or any other exception: append_reason, continue.
Refuse(c) ==
    /\ NextInOrder(c)
    /\ ~Accepts(c)
    /\ stack' = SavedDtb(c)
    /\ untried' = untried \ {c}
    /\ UNCHANGED <<image, astype, pc, result>>

\* "A full iteration through all the classes without anyone selecting us means
\* we are done": return base_as, or raise error.
Finish ==
    /\ pc = "vote"
    /\ untried = {}
    /\ pc' = "done"
    /\ result' = IF /\ HasBase
                    /\ astype = "virtual" => Top.cls \in Paging
                 THEN "base_as" ELSE "AddrSpaceError"
    /\ UNCHANGED <<image, astype, stack, untried>>

VoteNext ==
    \/ \E c \in Classes : Stack(c) \/ Refuse(c)
    \/ Finish

\* load_as is one thread that runs until it returns.
VoteSpec == VoteInit /\ [][VoteNext]_voteVars /\ WF_voteVars(VoteNext)

------------------------------------------------------------------------------
VoteTypeOK ==
    /\ image \in Images /\ astype \in AsTypes
    /\ stack \in Seq([cls : Classes, dtb : Dtbs \cup {PyNone}])
    /\ untried \subseteq Classes
    /\ pc \in {"vote", "done"}
    /\ result \in {"pending", "base_as", "AddrSpaceError"}

\* The stack has the shape every plugin counts on: one direct address space at
\* the bottom, file formats in the order their headers wrap each other, and at
\* most one paging address space, on top.
WellStacked ==
    \A i \in 1 .. Len(stack) :
        /\ i = 1 <=> stack[i].cls \in Direct
        /\ stack[i].cls \in Formats =>
               i - 1 <= Len(image.layers) /\ stack[i].cls = image.layers[i - 1]
        /\ stack[i].cls \in Paging => i = Len(stack)

\* What the greedy rounds should amount to: the formats that can be unwrapped
\* one after the other, then the preferred paging class among those that work.
Unwrapped ==
    LET usable(i) == /\ image.layers[i] \in image.supports
                     /\ image.layers[i] = "HPAKAddressSpace" =>
                            image.location = "file"
        prefixes  == {n \in 0 .. Len(image.layers) : \A i \in 1 .. n : usable(i)}
    IN  CHOOSE n \in prefixes : \A m \in prefixes : m <= n

ExpectedDtb ==
    IF image.user # PyNone THEN image.user
    ELSE IF Unwrapped > 0 /\ image.layers[Unwrapped] \in HeaderHasDtb
    THEN image.header ELSE image.scan

Candidates ==
    IF astype = "physical" \/ ExpectedDtb # image.right THEN {}
    ELSE image.passes \cap image.supports

\* When the voting ends, whatever the order of ties: nothing is on the stack
\* when the location cannot be opened; otherwise every header that can be
\* unwrapped is, and one of the candidates of the lowest order is on top.
BestStack ==
    pc = "done" =>
        IF \/ image.location \notin {"file", "firewire"}
           \/ image.location = "file" /\ "FileAddressSpace" \notin image.supports
           \/ /\ image.location = "firewire"
              /\ "FirewireAddressSpace" \notin image.supports
        THEN stack = <<>> /\ result = "AddrSpaceError"
        ELSE /\ Len(stack) = 1 + Unwrapped + (IF Candidates = {} THEN 0 ELSE 1)
             /\ Candidates # {} =>
                    /\ Top.cls \in Candidates
                    /\ \A c \in Candidates : Order(Top.cls) <= Order(c)
             /\ result = "AddrSpaceError" <=>
                    astype = "virtual" /\ Candidates = {}

\* The kernel address space runs on the user's DTB if there is one, else on
\* that of the header right below it, else on the scanned one; a class that
\* failed and left its DTB on the base has no effect on those that follow.
RightDtb ==
    pc = "done" /\ HasBase /\ Top.cls \in Paging => Top.dtb = ExpectedDtb

\* The voting ends.
VotingEnds == <>(pc = "done")
==============================================================================
