--------------------------- MODULE KeyRegeneration ---------------------------
(***************************************************************************)
(* What has to fit together for an honest proof to be accepted: the guest, *)
(* the commit of the logic VM that it has as a constant, the verifying key *)
(* in arm_core/compliance.vk and the copy of it in the NIF.  arm_vm_commit *)
(* computes the constant and the key; arm_circuits/README.md says when to  *)
(* do so.  Files change underneath, and the key is printed into a file     *)
(* that the shell has emptied before.                                      *)
(*                                                                         *)
(* A commit or key stands for the inputs it is computed from.              *)
(***************************************************************************)
EXTENDS Naturals

CONSTANT MaxMishaps   \* bound on edits and failed runs, all in all

VARIABLES source,     \* versions of the guest's code and of the two configurations
          constant,   \* LOGIC_VM_COMMIT in proving.rs
          vmexe,      \* the guest as it was built last
          keyFile,    \* compliance.vk
          printing,   \* the key that a run of print-compliance-vk will print
          nif,        \* the key in the NIF
          mishaps

vars == <<source, constant, vmexe, keyFile, printing, nif, mishaps>>

Torn == [torn |-> TRUE]
Idle == [idle |-> TRUE]

-----------------------------------------------------------------------------
ComputeLogicVmCommit == source.logic

\* Fault: the constant is not among the dependencies of the guest.
VmexeOfCode == [code |-> source.guest, commit |-> vmexe.commit]

\* The guest has the constant compiled in.
Vmexe == [code |-> source.guest, commit |-> constant]

\* Both configurations are compiled into the program that prints the key;
\* the guest is a file that it reads.
ConstructComplianceVk ==
  [exe |-> vmexe, logic |-> source.logic, compliance |-> source.compliance]

\* A prover runs the guest at hand, in a VM of the configurations at hand.
HonestProof == [exe |-> vmexe, logic |-> source.logic, compliance |-> source.compliance]

\* The guest turns down logic proofs of a VM that it does not know.
Proves(proof) == proof.exe.commit = proof.logic

Verify(proof) == CASE nif = Torn  -> "Panic"
                   [] nif = proof -> "Ok"
                   [] OTHER       -> "ProofVerificationFailed"

-----------------------------------------------------------------------------
Edit(part) == /\ mishaps < MaxMishaps
              /\ source' = [source EXCEPT ![part] = @ + 1]
              /\ mishaps' = mishaps + 1
              /\ UNCHANGED <<constant, vmexe, keyFile, printing, nif>>

\* "Regenerate them whenever the VM config changes."
PrintLogicVmCommit == /\ constant # ComputeLogicVmCommit
                      /\ constant' = ComputeLogicVmCommit
                      /\ UNCHANGED <<source, vmexe, keyFile, printing, nif, mishaps>>

\* "Rebuild whenever a guest's code or dependency changes."
BuildGuest == /\ vmexe # Vmexe
              /\ vmexe' = Vmexe
              /\ UNCHANGED <<source, constant, keyFile, printing, nif, mishaps>>

\* The shell empties the file, then the program reads its inputs.
StartPrinting == /\ printing = Idle
                 /\ keyFile # ConstructComplianceVk
                 /\ keyFile' = Torn
                 /\ printing' = ConstructComplianceVk
                 /\ UNCHANGED <<source, constant, vmexe, nif, mishaps>>

FinishPrinting == /\ printing # Idle
                  /\ keyFile' = printing
                  /\ printing' = Idle
                  /\ UNCHANGED <<source, constant, vmexe, nif, mishaps>>

\* A wrong path, a guest that does not parse, an interrupt.
FailPrinting == /\ printing # Idle
                /\ mishaps < MaxMishaps
                /\ printing' = Idle
                /\ mishaps' = mishaps + 1
                /\ UNCHANGED <<source, constant, vmexe, keyFile, nif>>

\* "Then rebuild the NIF so the new key is re-embedded."  Whatever the file
\* has at that time is embedded.
BuildNif == /\ nif # keyFile
            /\ nif' = keyFile
            /\ UNCHANGED <<source, constant, vmexe, keyFile, printing, mishaps>>

Init == /\ source = [guest |-> 0, logic |-> 0, compliance |-> 0]
        /\ constant = 0
        /\ vmexe = [code |-> 0, commit |-> 0]
        /\ keyFile = ConstructComplianceVk
        /\ printing = Idle
        /\ nif = keyFile
        /\ mishaps = 0

Next == \/ \E part \in DOMAIN source : Edit(part)
        \/ PrintLogicVmCommit \/ BuildGuest
        \/ StartPrinting \/ FinishPrinting \/ FailPrinting
        \/ BuildNif

\* The maintainers do what the README asks for, in no particular order.
Spec == /\ Init /\ [][Next]_vars
        /\ WF_vars(PrintLogicVmCommit) /\ WF_vars(BuildGuest)
        /\ WF_vars(StartPrinting) /\ WF_vars(FinishPrinting) /\ WF_vars(BuildNif)

-----------------------------------------------------------------------------
(* Once the edits end, the steps of the README, in whatever order they are *)
(* taken and whatever the NIF had embedded in between, a torn key          *)
(* included, lead to a state where honest provers can prove and the NIF    *)
(* accepts what they prove, for good.                                      *)
HonestProofsAccepted == Proves(HonestProof) /\ Verify(HonestProof) = "Ok"

Recovers == <>[]HonestProofsAccepted
=============================================================================
