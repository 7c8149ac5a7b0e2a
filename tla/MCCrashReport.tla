---------------------------- MODULE MCCrashReport ----------------------------
EXTENDS CrashReport

Elf(header, version, address) ==
  [header |-> header, inBounds |-> TRUE, symtab |-> TRUE, strtab |-> TRUE, sections |-> 3, version |-> version,
   symbols |-> << [name |-> "f", value |-> 2, size |-> 0, section |-> 1],
                  [name |-> "g", value |-> 2, size |-> 2, section |-> 1],
                  [name |-> "kernel_version", value |-> address, size |-> 1, section |-> 2] >>]

NoElf == [header |-> "none"]
Readme == << [name |-> "readme", blocks |-> 1, elf |-> NoElf], [name |-> "text", blocks |-> 0, elf |-> NoElf] >>
Member(elf) == << [name |-> "ethos.elf", blocks |-> 0, elf |-> elf] >>

\* Versions: a name and its numbers
V0 == <<"nanoOS", "0", "0">>
V1 == <<"nanoOS", "0", "1">>
V1More == V1 \o <<"1">>
MCKernelVersion == V1
Here == 9      \* this kernel's VersionAddress

\* This kernel's file
Own == Elf("kernel", V1, Here)

MCArchives == { Readme,
                Member(Own),
                Readme \o Member(Own),
                Member(Elf("kernel", V1More, Here)),
                Member(Elf("kernel", V0, Here)),
                Member(Elf("kernel", V0, Here - 1)),
                Member(Elf("other", V1, Here)),
                Member([Own EXCEPT !.sections = 2]),
                Member([Own EXCEPT !.symtab = FALSE]),
                Member([Own EXCEPT !.strtab = FALSE]),
                Member([Own EXCEPT !.inBounds = FALSE]),
                Member([Elf("kernel", V0, Here) EXCEPT !.inBounds = FALSE]) }
=============================================================================
