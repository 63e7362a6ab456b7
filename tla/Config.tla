------------------------------- MODULE Config -------------------------------
(***************************************************************************)
(* internal/config: what the kernel command line asks of k0smos. The       *)
(* command line is a sequence of tokens [key, value], the key without its  *)
(* "k0smos." prefix; keys whose value only names a file, a filesystem type *)
(* or a label are left out, because nothing branches on them.              *)
(***************************************************************************)
EXTENDS Naturals, Sequences, SequencesExt

CONSTANTS
    IpForms   \* IpForms[v]: how the value v of k0smos.ip= reads, as
              \* [bare, specs]; specs is a sequence of [name, addr]

Defaults ==
    [hostname |-> "k0smos", exec |-> "k0s controller", modules |-> "default",
     iface |-> "eth0", ip |-> "", gw |-> "", dns |-> "", root |-> "", data |-> ""]

\* The keys for which an empty value leaves what was there.
NonEmptyKeys == {"hostname", "exec", "modules", "iface"}

\* What one token makes of the configuration; unknown keys are ignored.
ParseToken(c, tok) ==
    IF \/ tok.key \notin DOMAIN c
       \/ tok.value = "" /\ tok.key \in NonEmptyKeys
    THEN c ELSE [c EXCEPT ![tok.key] = tok.value]

\* The last token with a key wins.
Parse(cmdline) ==
    LET c[i \in 0 .. Len(cmdline)] ==
            IF i = 0 THEN Defaults ELSE ParseToken(c[i - 1], cmdline[i])
    IN c[Len(cmdline)]

\* The interfaces to configure: the one of Iface for a bare value, else each
\* well-formed name:addr pair, of which only Iface's has the gateway.
NICs(c) ==
    IF c.ip = "" THEN << >>
    ELSE LET form == IpForms[c.ip]
             nic(s) == [name |-> s.name, addr |-> s.addr,
                        gw |-> IF s.name = c.iface THEN c.gw ELSE ""]
             good == SelectSeq(form.specs, LAMBDA s : s.name # "" /\ s.addr # "")
         IN IF form.bare
            THEN << [name |-> c.iface, addr |-> form.specs[1].addr, gw |-> c.gw] >>
            ELSE [i \in DOMAIN good |-> nic(good[i])]

\* applyMachineConfig: the metadata drive's own values win where it has any.
ApplyMachineConfig(c, machine) ==
    [k \in DOMAIN c |-> IF k \in DOMAIN machine /\ machine[k] # ""
                        THEN machine[k] ELSE c[k]]
=============================================================================
