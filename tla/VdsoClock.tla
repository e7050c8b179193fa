----------------------------- MODULE VdsoClock -----------------------------
(***************************************************************************)
(* clock_gettime (time.rs) over the cached vDSO entry (vdso.rs). Threads   *)
(* race through clock_gettime_fn, whose cache is one relaxed atomic word;  *)
(* resolution opens and reads /proc/self/auxv, and so depends on a free    *)
(* descriptor and a successful read at that moment, and then searches the  *)
(* ELF image. One step is one atomic access, system call or vDSO call.     *)
(***************************************************************************)
EXTENDS Integers, Sequences, FiniteSets

CONSTANTS
    Threads,
    Images,      \* descriptions of the vDSO images a process may be given
    Clocks,      \* clock ids the kernel knows
    VdsoClocks,  \* those of them the vDSO serves
    BadClock,    \* a clock id nobody knows
    FdLimit,     \* descriptors available to the threads and the rest of the program
    MaxTime,     \* bound on the clock
    MaxCalls     \* bound on the calls of a thread

VARIABLES
    image,    \* the process's vDSO
    CACHE,    \* 0, FAILED or a pointer
    pc,       \* each thread's place in clock_gettime, "idle" outside
    clock,    \* the clock id it asks for
    start,    \* when its call began (history)
    entry,    \* what clock_gettime_fn gave it: None or a pointer
    res,      \* what its last call returned: a time, or a negative errno
    calls,    \* how many calls it has made
    leaked,   \* descriptors nobody will close
    other,    \* descriptors the rest of the program holds
    now       \* the clock

vars == <<image, CACHE, pc, clock, start, entry, res, calls, leaked, other, now>>

-----------------------------------------------------------------------------
(* Finding clock_gettime: vdso_base over the auxiliary vector, lookup over *)
(* the ELF image at that base. An image is what the reads of lookup find:  *)
(* the header fields, the program headers, and at each file offset or      *)
(* address the table that lies there. Addresses are numbers; the wrapping  *)
(* of reloc cancels out, so it is plain addition. A name is a sequence of  *)
(* words.                                                                  *)

None == 0

AT_NULL == 0
AT_SYSINFO_EHDR == 33
PT_LOAD == 1
PT_DYNAMIC == 2
DT_NULL == 0
DT_HASH == 4
DT_STRTAB == 5
DT_SYMTAB == 6
DT_OTHER == 7    \* any tag lookup has no use for

SYMBOL == <<"clock", "gettime">>
E_MACHINE == 62

\* The first and the last of a set of places in a table; 0 if it is empty.
First(I) == IF I = {} THEN 0 ELSE CHOOSE i \in I : \A j \in I : i <= j
Last(I) == IF I = {} THEN 0 ELSE CHOOSE i \in I : \A j \in I : j <= i

\* The value of the first AT_SYSINFO_EHDR entry before AT_NULL; 0 is None too.
vdso_base(auxv) ==
    LET i == First({k \in 1..Len(auxv) : auxv[k].key \in {AT_SYSINFO_EHDR, AT_NULL}})
    IN  IF i # 0 /\ auxv[i].key = AT_SYSINFO_EHDR THEN auxv[i].val ELSE None

\* The table at an address, an empty one where the image has none.
TableAt(tables, addr) == IF addr \in DOMAIN tables THEN tables[addr] ELSE <<>>

reloc(base, load_off, vaddr) == base + (load_off + vaddr)

\* The NUL after the name is not compared.
cstr_eq_prefix(name, target) ==
    Len(name) >= Len(target) /\ \A i \in 1..Len(target) : name[i] = target[i]

cstr_eq(name, target) ==
    Len(name) = Len(target) /\ \A i \in 1..Len(target) : name[i] = target[i]

ValidHeader(img) ==
    img.magic /\ img.class = 2 /\ img.machine = E_MACHINE /\ img.phentsize >= 56

\* The last entry with this tag before DT_NULL, relocated; None if there is none.
DynamicEntry(dyn, tag, base, load_off) ==
    LET end == First({k \in 1..Len(dyn) : dyn[k].tag = DT_NULL})
        i == Last({k \in 1..(end - 1) : dyn[k].tag = tag})
    IN  IF i = 0 THEN None ELSE reloc(base, load_off, dyn[i].val)

\* The scan of the symbol table: the first named, defined symbol that is SYMBOL.
Scan(syms, names, nsyms) ==
    First({k \in 1..nsyms : /\ syms[k].st_name # 0 /\ syms[k].st_value # 0
                            /\ cstr_eq(names[syms[k].st_name], SYMBOL)})

lookup(img, base) ==
    LET load == First({k \in 1..Len(img.phdrs) : img.phdrs[k].p_type = PT_LOAD})
        dynamic == Last({k \in 1..Len(img.phdrs) : img.phdrs[k].p_type = PT_DYNAMIC})
        load_off == img.phdrs[load].p_offset - img.phdrs[load].p_vaddr
        dyn == TableAt(img.tables, base + img.phdrs[dynamic].p_offset)
        strtab == DynamicEntry(dyn, DT_STRTAB, base, load_off)
        symtab == DynamicEntry(dyn, DT_SYMTAB, base, load_off)
        hash == DynamicEntry(dyn, DT_HASH, base, load_off)
        syms == TableAt(img.tables, symtab)
        i == Scan(syms, TableAt(img.tables, strtab), TableAt(img.tables, hash)[2])
    IN  IF \/ ~ValidHeader(img)
           \/ load = 0 \/ dynamic = 0
           \/ strtab = None \/ symtab = None \/ hash = None
           \/ i = 0
        THEN None
        ELSE reloc(base, load_off, syms[i].st_value)

resolve(p) ==
    LET base == vdso_base(p.auxv)
    IN  IF base = None THEN None ELSE lookup(p.elf, base)

-----------------------------------------------------------------------------
(* The kernel's side (external). *)

Base == 1000

\* The image a linker makes of a description d: the machine, the address it is
\* linked at, whether it has a SysV hash table, and its functions with the
\* address each has in memory, 0 for one that is only referred to.
vaddr(d, addr) == IF addr = 0 THEN 0 ELSE (addr - Base) + d.linked

Hash(d) == <<1, Len(d.functions) + 1>>

Symbols(d) ==
    [j \in 1..(Len(d.functions) + 1) |->
        [st_name |-> j - 1,
         st_value |-> IF j = 1 THEN 0 ELSE vaddr(d, d.functions[j - 1].addr)]]

Strings(d) == [j \in 1..Len(d.functions) |-> d.functions[j].name]

Dynamic(d) ==
    <<[tag |-> DT_STRTAB, val |-> vaddr(d, Base + 300)],
      [tag |-> DT_SYMTAB, val |-> vaddr(d, Base + 200)],
      [tag |-> IF d.hash THEN DT_HASH ELSE DT_OTHER, val |-> vaddr(d, Base + 100)],
      [tag |-> DT_NULL, val |-> 0],
      [tag |-> DT_SYMTAB, val |-> 7]>>

Link(d) ==
    [magic |-> TRUE, class |-> d.class, machine |-> d.machine, phentsize |-> 56,
     phdrs |-> <<[p_type |-> PT_DYNAMIC, p_offset |-> 400, p_vaddr |-> d.linked + 400],
                 [p_type |-> PT_LOAD, p_offset |-> 0, p_vaddr |-> d.linked],
                 [p_type |-> PT_LOAD, p_offset |-> 600, p_vaddr |-> d.linked + 4096]>>,
     tables |-> [a \in {Base + 100, Base + 200, Base + 300, Base + 400} |->
         CASE a = Base + 100 -> Hash(d)
           [] a = Base + 200 -> Symbols(d)
           [] a = Base + 300 -> Strings(d)
           [] a = Base + 400 -> Dynamic(d)]]

\* What resolution ought to find: the function of that name, in an image for
\* this machine that the program has and that can be searched.
Exported(d) ==
    LET defs == {k \in 1..Len(d.functions) :
                    d.functions[k].name = SYMBOL /\ d.functions[k].addr # 0}
    IN  IF d.mapped /\ d.class = 2 /\ d.machine = E_MACHINE /\ d.hash /\ defs # {}
        THEN d.functions[First(defs)].addr
        ELSE None

\* The auxiliary vector names the image, or has no entry for it; what lies after
\* AT_NULL does not count.
Auxv(d) ==
    <<[key |-> 3, val |-> 64],
      IF d.mapped THEN [key |-> AT_SYSINFO_EHDR, val |-> Base] ELSE [key |-> 6, val |-> 4096],
      [key |-> AT_NULL, val |-> 0],
      [key |-> AT_SYSINFO_EHDR, val |-> 77]>>

Process(d) == [auxv |-> Auxv(d), elf |-> Link(d)]

-----------------------------------------------------------------------------
Init ==
    /\ image \in Images
    /\ CACHE = 0
    /\ pc = [t \in Threads |-> "idle"]
    /\ clock = [t \in Threads |-> BadClock]
    /\ start = [t \in Threads |-> 0]
    /\ entry = [t \in Threads |-> None]
    /\ res = [t \in Threads |-> 0]
    /\ calls = [t \in Threads |-> 0]
    /\ leaked = 0
    /\ other \in 0..FdLimit
    /\ now = 0

FAILED == 1
EINVAL == -22
Uninit == -1  \* what is left in the MaybeUninit timespec

Goto(t, p) == pc' = [pc EXCEPT ![t] = p]
InUse == other + leaked + Cardinality({t \in Threads : pc[t] = "auxv_read"})

-----------------------------------------------------------------------------
(* clock_gettime and clock_gettime_fn. *)

Call(t) ==
    /\ pc[t] = "idle" /\ calls[t] < MaxCalls
    /\ calls' = [calls EXCEPT ![t] = @ + 1]
    /\ \E c \in Clocks \cup {BadClock} : clock' = [clock EXCEPT ![t] = c]
    /\ start' = [start EXCEPT ![t] = now]
    /\ Goto(t, "load")
    /\ UNCHANGED <<image, CACHE, entry, res, leaked, other, now>>

\* CACHE.load: FAILED gives None, a pointer is used, 0 means resolve.
Load(t) ==
    /\ pc[t] = "load"
    /\ \/ CACHE = FAILED /\ entry' = [entry EXCEPT ![t] = None] /\ Goto(t, "syscall")
       \/ CACHE \notin {0, FAILED} /\ entry' = [entry EXCEPT ![t] = CACHE] /\ Goto(t, "vdso")
       \/ CACHE = 0 /\ Goto(t, "auxv_open") /\ UNCHANGED entry
    /\ UNCHANGED <<image, CACHE, clock, start, res, calls, leaked, other, now>>

\* vdso_base: open fails when no descriptor is free.
OpenAuxv(t) ==
    /\ pc[t] = "auxv_open"
    /\ \/ /\ InUse >= FdLimit
          /\ entry' = [entry EXCEPT ![t] = None]
          /\ Goto(t, "store")
       \/ /\ InUse < FdLimit
          /\ Goto(t, "auxv_read")
          /\ UNCHANGED entry
    /\ UNCHANGED <<image, CACHE, clock, start, res, calls, leaked, other, now>>

\* read_all(..).ok()? returns before the close when the read fails; otherwise
\* the file is closed, the base found and the symbol looked up.
ReadAuxv(t) ==
    /\ pc[t] = "auxv_read"
    /\ \/ leaked' = leaked + 1 /\ entry' = [entry EXCEPT ![t] = None]
       \/ /\ entry' = [entry EXCEPT ![t] = resolve(Process(image))]
          /\ UNCHANGED leaked
    /\ Goto(t, "store")
    /\ UNCHANGED <<image, CACHE, clock, start, res, calls, other, now>>

\* CACHE.store(resolved.map_or(FAILED, ..)), whatever another thread stored.
Store(t) ==
    /\ pc[t] = "store"
    /\ CACHE' = IF entry[t] # None THEN entry[t] ELSE FAILED
    /\ Goto(t, IF entry[t] # None THEN "vdso" ELSE "syscall")
    /\ UNCHANGED <<image, clock, start, entry, res, calls, leaked, other, now>>

Return(t, r) ==
    /\ res' = [res EXCEPT ![t] = r]
    /\ Goto(t, "idle")
    /\ UNCHANGED <<image, CACHE, clock, start, entry, calls, leaked, other, now>>

VdsoCall_unchecked(t) ==
    /\ pc[t] = "vdso"
    /\ Return(t, IF clock[t] \in VdsoClocks THEN now ELSE Uninit)

\* The vDSO entry serves the clock, or declines with a non-zero return and the
\* call falls through to the system call.
VdsoCall(t) ==
    /\ pc[t] = "vdso"
    /\ \/ clock[t] \in VdsoClocks /\ Return(t, now)
       \/ /\ clock[t] \notin VdsoClocks
          /\ Goto(t, "syscall")
          /\ UNCHANGED <<image, CACHE, clock, start, entry, res, calls, leaked, other, now>>

Syscall(t) ==
    /\ pc[t] = "syscall"
    /\ Return(t, IF clock[t] \in Clocks THEN now ELSE EINVAL)

clock_gettime(t) ==
    \/ Load(t) \/ OpenAuxv(t) \/ ReadAuxv(t) \/ Store(t) \/ VdsoCall(t) \/ Syscall(t)

-----------------------------------------------------------------------------
(* The rest of the program takes and frees descriptors; time passes. *)

OtherFds ==
    /\ \/ InUse < FdLimit /\ other' = other + 1
       \/ other > 0 /\ other' = other - 1
    /\ UNCHANGED <<image, CACHE, pc, clock, start, entry, res, calls, leaked, now>>

Tick ==
    /\ now < MaxTime
    /\ now' = now + 1
    /\ UNCHANGED <<image, CACHE, pc, clock, start, entry, res, calls, leaked, other>>

Next == OtherFds \/ Tick \/ \E t \in Threads : Call(t) \/ clock_gettime(t)

Spec == Init /\ [][Next]_vars

-----------------------------------------------------------------------------
(* Properties *)

\* "The result is identical either way": a call that returns gives a time the
\* clock showed during the call for a clock the kernel knows and EINVAL for
\* any other, whether it went through the vDSO, through the system call after
\* the vDSO declined, or resolved anything itself.
ResultIsCurrent ==
    [][\A t \in Threads : pc[t] # "idle" /\ pc'[t] = "idle" =>
         IF clock[t] \in Clocks THEN res'[t] \in start[t]..now ELSE res'[t] = EINVAL]_vars

\* What threads cache and call is the function named SYMBOL of an image for
\* this machine, at the address it was loaded at: never the sentinel, another
\* function, or one whose name only begins alike.
PointerIsReal ==
    /\ CACHE \notin {0, FAILED} => CACHE = Exported(image)
    /\ \A t \in Threads : pc[t] = "vdso" => entry[t] = Exported(image) /\ entry[t] # None

=============================================================================
