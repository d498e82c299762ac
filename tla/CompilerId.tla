------------------------------ MODULE CompilerId ------------------------------
(***************************************************************************)
(* The probes of the build directory, CMakeCCompilerId.c and               *)
(* CMakeCXXCompilerId.cpp.  CMake compiles one with the compiler it found  *)
(* and reads from the binary who compiled it, in which version, for which  *)
(* platform and architecture and with which language standard.             *)
(*                                                                         *)
(* Everything follows from the macros the compiler predefines, a function  *)
(* from their names to their values, by chains of #elif in which the first *)
(* branch that matches wins.  The two files differ in a few branches; the  *)
(* operators that differ take the language.                                *)
(***************************************************************************)
EXTENDS Integers, SequencesExt, TLC

CONSTANTS
  Releases,     \* compilers: [languages, id, version, macros, poses], where
                \* poses are macros it adds to look like another compiler
  Targets,      \* what they compile for: [platform, arch, macros, ids, needs]
  Standards     \* their default standards: [language, dialect, macros, ids, needs]

VARIABLES
  release, pose, target, standard,    \* the compiler at hand
  info                                \* the strings in the binary

probeVars == <<release, pose, target, standard, info>>

\* The branch taken: the first whose condition holds.
First(branches) == branches[SelectInSeq(branches, LAMBDA b : b[1])][2]

\* Digits as the probe writes them, eight to a component.
DEC(n) == [k \in 1 .. 8 |-> (n \div 10^(8 - k)) % 10]
HEX(n) == [k \in 1 .. 8 |-> (n \div 16^(8 - k)) % 16]

\* The branches that set COMPILER_ID, in the order of the file.
Compilers(lang, d) ==
  LET any(S) == S \cap DOMAIN d # {}
      all(S) == S \subseteq DOMAIN d
      C      == lang = "C"
      ibm    == IF C THEN "__IBMC__" ELSE "__IBMCPP__"
  IN  <<
    <<~ C /\ any({"__COMO__"}), "Comeau">>,
    <<any({"__INTEL_COMPILER", "__ICC"}), "Intel">>,
    << \/ all({"__clang__", "__INTEL_CLANG_COMPILER"})
       \/ any({"__INTEL_LLVM_COMPILER"}), "IntelLLVM">>,
    <<any({"__PATHCC__"}), "PathScale">>,
    <<all({"__BORLANDC__", "__CODEGEARC_VERSION__"}), "Embarcadero">>,
    <<any({"__BORLANDC__"}), "Borland">>,
    <<any({"__WATCOMC__"}) /\ d["__WATCOMC__"] < 1200, "Watcom">>,
    <<any({"__WATCOMC__"}), "OpenWatcom">>,
    <<any({IF C THEN "__SUNPRO_C" ELSE "__SUNPRO_CC"}), "SunPro">>,
    <<any({IF C THEN "__HP_cc" ELSE "__HP_aCC"}), "HP">>,
    <<any({IF C THEN "__DECC" ELSE "__DECCXX"}), "Compaq">>,
    <<all({ibm, "__COMPILER_VER__"}), "zOS">>,
    <<all({"__ibmxl__", "__clang__"}), "XLClang">>,
    <<any({ibm}) /\ ~ any({"__COMPILER_VER__"}) /\ d[ibm] >= 800, "XL">>,
    <<any({ibm}) /\ ~ any({"__COMPILER_VER__"}) /\ d[ibm] < 800, "VisualAge">>,
    <<any({"__NVCOMPILER"}), "NVHPC">>,
    <<any({"__PGI"}), "PGI">>,
    <<any({"_CRAYC"}), "Cray">>,
    <<any({"__TI_COMPILER_VERSION__"}), "TI">>,
    <<any({"__FUJITSU", "__FCC_VERSION", "__fcc_version"}), "Fujitsu">>,
    <<any({"__ghs__"}), "GHS">>,
    <<C /\ any({"__TINYC__"}), "TinyCC">>,
    <<C /\ any({"__BCC__"}), "Bruce">>,
    <<any({"__SCO_VERSION__"}), "SCO">>,
    <<any({"__ARMCC_VERSION"}) /\ ~ any({"__clang__"}), "ARMCC">>,
    <<all({"__clang__", "__apple_build_version__"}), "AppleClang">>,
    <<all({"__clang__", "__ARMCOMPILER_VERSION"}), "ARMClang">>,
    <<any({"__clang__"}), "Clang">>,
    <<any({"__GNUC__"} \cup IF C THEN {} ELSE {"__GNUG__"}), "GNU">>,
    <<any({"_MSC_VER"}), "MSVC">>,
    <<any({"__VISUALDSPVERSION__", "__ADSPBLACKFIN__", "__ADSPTS__",
           "__ADSP21000__"}), "ADSP">>,
    <<any({"__IAR_SYSTEMS_ICC__", "__IAR_SYSTEMS_ICC"}), "IAR">>,
    <<C /\ any({"__SDCC_VERSION_MAJOR", "SDCC"}), "SDCC">>,
    <<any({"__hpux", "__hpua"}), "HP">>,
    <<TRUE, "">> >>

COMPILER_ID_GNUFirst(lang, d) ==    \* seeded bug: __GNUC__ tested too early
  First(<< <<"__GNUC__" \in DOMAIN d, "GNU">> >> \o Compilers(lang, d))

COMPILER_ID(lang, d) == First(Compilers(lang, d))

-----------------------------------------------------------------------------
(***************************************************************************)
(* COMPILER_VERSION_MAJOR, _MINOR, _PATCH and _TWEAK, those that are       *)
(* defined, in the three parts of the chain.                               *)
(***************************************************************************)
\* The components that a number holds as its decimal digits: n \div and % the
\* powers of ten in the code.
Split(n, minor, patch) ==
  <<DEC(n \div (minor * patch)), DEC((n \div patch) % minor), DEC(n % patch)>>

\* The macro as a component of its own, if the compiler defines it.
Optional(m, d) == IF m \in DOMAIN d THEN <<DEC(d[m])>> ELSE <<>>

IntelVersion(d) ==
  LET n      == d["__INTEL_COMPILER"]
      update == Optional("__INTEL_COMPILER_UPDATE", d)
  IN  (IF n < 2021 \/ n \in {202110, 202111}
         THEN IF update # <<>> THEN SubSeq(Split(n, 10, 10), 1, 2) \o update
                               ELSE Split(n, 10, 10)
         ELSE <<DEC(n), DEC(d["__INTEL_COMPILER_UPDATE"]), DEC(0)>>)
      \o Optional("__INTEL_COMPILER_BUILD_DATE", d)

SunProVersion_Boundary(n) ==    \* seeded bug: > for >=
  IF n > 20736
    THEN <<HEX(n \div 4096), HEX((n \div 16) % 256), HEX(n % 16)>>
    ELSE <<HEX(n \div 256), HEX((n \div 16) % 16), HEX(n % 16)>>

SunProVersion(n) ==
  IF n >= 20736    \* 0x5100
    THEN <<HEX(n \div 4096), HEX((n \div 16) % 256), HEX(n % 16)>>
    ELSE <<HEX(n \div 256), HEX((n \div 16) % 16), HEX(n % 16)>>

\* __WATCOMC__ is VVRR, and VVRP + 1100 for Open Watcom.
WatcomVersion(n) ==
  <<DEC((IF n < 1200 THEN n ELSE n - 1100) \div 100), DEC((n \div 10) % 10)>>
    \o IF n % 10 > 0 THEN <<DEC(n % 10)>> ELSE <<>>

EarlyVersion(lang, id, d) ==
  LET C == lang = "C"
  IN  CASE id = "Comeau" -> <<DEC(d["__COMO_VERSION__"] \div 100),
                              DEC(d["__COMO_VERSION__"] % 100)>>
        [] id = "Intel" -> IntelVersion(d)
        [] id = "IntelLLVM" ->
             LET n == d["__INTEL_LLVM_COMPILER"]
             IN  IF n < 1000000 THEN Split(n, 10, 10) ELSE Split(n, 100, 100)
        [] id = "PathScale" -> <<DEC(d["__PATHCC__"]), DEC(d["__PATHCC_MINOR__"])>>
                                 \o Optional("__PATHCC_PATCHLEVEL__", d)
        [] id = "Embarcadero" ->
             LET n == d["__CODEGEARC_VERSION__"]
             IN  <<HEX((n \div 2^24) % 256), HEX((n \div 2^16) % 256),
                   DEC(n % 2^16)>>
        [] id = "Borland" -> <<HEX(d["__BORLANDC__"] \div 256),
                               HEX(d["__BORLANDC__"] % 256)>>
        [] id \in {"Watcom", "OpenWatcom"} -> WatcomVersion(d["__WATCOMC__"])
        [] id = "SunPro" -> SunProVersion(d[IF C THEN "__SUNPRO_C" ELSE "__SUNPRO_CC"])
        [] id = "HP" ->
             LET hp == IF C THEN "__HP_cc" ELSE "__HP_aCC"
             IN  IF hp \in DOMAIN d THEN Split(d[hp], 100, 100) ELSE <<>>
        [] id = "Compaq" ->
             LET n == d[IF C THEN "__DECC_VER" ELSE "__DECCXX_VER"]
             IN  <<DEC(n \div 10000000), DEC((n \div 100000) % 100), DEC(n % 10000)>>
        [] OTHER -> <<>>

MiddleVersion(lang, id, d) ==
  LET parts(ms) == [k \in DOMAIN ms |-> DEC(d[ms[k]])]
  IN  CASE id \in {"zOS", "XL", "VisualAge"} ->
             Split(d[IF lang = "C" THEN "__IBMC__" ELSE "__IBMCPP__"], 10, 10)
        [] id = "XLClang" ->
             parts(<<"__ibmxl_version__", "__ibmxl_release__",
                     "__ibmxl_modification__", "__ibmxl_ptf_fix_level__">>)
        [] id = "NVHPC" -> parts(<<"__NVCOMPILER_MAJOR__", "__NVCOMPILER_MINOR__">>)
                             \o Optional("__NVCOMPILER_PATCHLEVEL__", d)
        [] id = "PGI" -> parts(<<"__PGIC__", "__PGIC_MINOR__">>)
                           \o Optional("__PGIC_PATCHLEVEL__", d)
        [] id = "Cray" -> parts(<<"_RELEASE_MAJOR", "_RELEASE_MINOR">>)
        [] id = "TI" -> Split(d["__TI_COMPILER_VERSION__"], 1000, 1000)
        [] id = "GHS" -> IF "__GHS_VERSION_NUMBER" \in DOMAIN d
                           THEN Split(d["__GHS_VERSION_NUMBER"], 10, 10) ELSE <<>>
        [] id = "ARMCC" ->
             LET n == d["__ARMCC_VERSION"]
             IN  IF n >= 1000000 THEN Split(n, 100, 10000) ELSE Split(n, 10, 10000)
        [] id = "ARMClang" -> Split(d["__ARMCOMPILER_VERSION"], 100, 10000)
        [] id \in {"AppleClang", "Clang"} ->
             parts(<<"__clang_major__", "__clang_minor__", "__clang_patchlevel__">>)
               \o Optional("__apple_build_version__", d)
        [] id = "GNU" ->
             Optional("__GNUC__", d)
               \o (IF "__GNUC__" \in DOMAIN d THEN <<>> ELSE Optional("__GNUG__", d))
               \o Optional("__GNUC_MINOR__", d) \o Optional("__GNUC_PATCHLEVEL__", d)
        [] id = "MSVC" ->
             LET n == d["_MSC_VER"]
             IN  <<DEC(n \div 100), DEC(n % 100)>>
                   \o (IF "_MSC_FULL_VER" \notin DOMAIN d THEN <<>>
                       ELSE <<DEC(d["_MSC_FULL_VER"] %
                                    (IF n >= 1400 THEN 100000 ELSE 10000))>>)
                   \o Optional("_MSC_BUILD", d)
        [] OTHER -> <<>>

LateVersion(id, d) ==
  CASE id = "ADSP" ->
         IF "__VISUALDSPVERSION__" \notin DOMAIN d THEN <<>>
         ELSE LET n == d["__VISUALDSPVERSION__"]
              IN  <<HEX(n \div 2^24), HEX((n \div 2^16) % 256), HEX((n \div 256) % 256)>>
    [] id = "IAR" ->
         CASE {"__VER__", "__ICCARM__"} \subseteq DOMAIN d -> Split(d["__VER__"], 1000, 1000)
           [] "__VER__" \in DOMAIN d /\ "__ICCARM__" \notin DOMAIN d
                /\ DOMAIN d \cap {"__ICCAVR__", "__ICCRX__", "__ICCRH850__",
                                  "__ICCRL78__", "__ICC430__", "__ICCRISCV__",
                                  "__ICCV850__", "__ICC8051__", "__ICCSTM8__"} # {} ->
                <<DEC(d["__VER__"] \div 100), DEC(d["__VER__"] % 100),
                  DEC(d["__SUBVERSION__"])>>
           [] OTHER -> <<>>
    [] id = "SDCC" ->
         IF "__SDCC_VERSION_MAJOR" \in DOMAIN d
           THEN <<DEC(d["__SDCC_VERSION_MAJOR"]), DEC(d["__SDCC_VERSION_MINOR"]),
                  DEC(d["__SDCC_VERSION_PATCH"])>>
           ELSE Split(d["SDCC"], 10, 10)
    [] OTHER -> <<>>

\* info_version: the components from the major one on.
COMPILER_VERSION(lang, id, d) ==
  EarlyVersion(lang, id, d) \o MiddleVersion(lang, id, d) \o LateVersion(id, d)

-----------------------------------------------------------------------------
Platforms(d) ==
  LET any(S) == S \cap DOMAIN d # {}
  IN  <<
    <<any({"__linux", "__linux__", "linux"}), "Linux">>,
    <<any({"__CYGWIN__"}), "Cygwin">>,
    <<any({"__MINGW32__"}), "MinGW">>,
    <<any({"__APPLE__"}), "Darwin">>,
    <<any({"_WIN32", "__WIN32__", "WIN32"}), "Windows">>,
    <<any({"__FreeBSD__", "__FreeBSD"}), "FreeBSD">>,
    <<any({"__NetBSD__", "__NetBSD"}), "NetBSD">>,
    <<any({"__OpenBSD__", "__OPENBSD"}), "OpenBSD">>,
    <<any({"__sun", "sun"}), "SunOS">>,
    <<any({"_AIX", "__AIX", "__AIX__", "__aix", "__aix__"}), "AIX">>,
    <<any({"__hpux", "__hpux__"}), "HP-UX">>,
    <<any({"__HAIKU__"}), "Haiku">>,
    <<any({"__BeOS", "__BEOS__", "_BEOS"}), "BeOS">>,
    <<any({"__QNX__", "__QNXNTO__"}), "QNX">>,
    <<any({"__tru64", "_tru64", "__TRU64__"}), "Tru64">>,
    <<any({"__riscos", "__riscos__"}), "RISCos">>,
    <<any({"__sinix", "__sinix__", "__SINIX__"}), "SINIX">>,
    <<any({"__UNIX_SV__"}), "UNIX_SV">>,
    <<any({"__bsdos__"}), "BSDOS">>,
    <<any({"_MPRAS", "MPRAS"}), "MP-RAS">>,
    <<any({"__osf", "__osf__"}), "OSF1">>,
    <<any({"_SCO_SV", "SCO_SV", "sco_sv"}), "SCO_SV">>,
    <<any({"__ultrix", "__ultrix__", "_ULTRIX"}), "ULTRIX">>,
    <<any({"__XENIX__", "_XENIX", "XENIX"}), "Xenix">>,
    <<any({"__WATCOMC__"}),
      First(<< <<any({"__LINUX__"}), "Linux">>, <<any({"__DOS__"}), "DOS">>,
              <<any({"__OS2__"}), "OS2">>, <<any({"__WINDOWS__"}), "Windows3x">>,
              <<any({"__VXWORKS__"}), "VxWorks">>, <<TRUE, "">> >>)>>,
    <<any({"__INTEGRITY"}),
      IF any({"INT_178B"}) THEN "Integrity178" ELSE "Integrity">>,
    <<TRUE, "">> >>

PLATFORM_ID_WindowsFirst(d) ==    \* seeded bug: _WIN32 tested too early
  First(<< <<"_WIN32" \in DOMAIN d, "Windows">> >> \o Platforms(d))

PLATFORM_ID(d) == First(Platforms(d))

\* Only these compilers are asked; for the others the string is empty.
ARCHITECTURE_ID(d) ==
  LET any(S) == S \cap DOMAIN d # {}
  IN  First(<<
    <<any({"_WIN32"}) /\ any({"_MSC_VER"}),
      First(<< <<any({"_M_IA64"}), "IA64">>, <<any({"_M_ARM64EC"}), "ARM64EC">>,
              <<any({"_M_X64", "_M_AMD64"}), "x64">>, <<any({"_M_IX86"}), "X86">>,
              <<any({"_M_ARM64"}), "ARM64">>,
              <<any({"_M_ARM"}) /\ d["_M_ARM"] = 4, "ARMV4I">>,
              <<any({"_M_ARM"}) /\ d["_M_ARM"] = 5, "ARMV5I">>,
              <<any({"_M_ARM"}), "ARMV of the macro's value">>,
              <<any({"_M_MIPS"}), "MIPS">>, <<any({"_M_SH"}), "SHx">>,
              <<TRUE, "">> >>)>>,
    <<any({"__WATCOMC__"}),
      First(<< <<any({"_M_I86"}), "I86">>, <<any({"_M_IX86"}), "X86">>,
              <<TRUE, "">> >>)>>,
    <<any({"__IAR_SYSTEMS_ICC__", "__IAR_SYSTEMS_ICC"}),
      First(<< <<any({"__ICCARM__"}), "ARM">>, <<any({"__ICCRX__"}), "RX">>,
              <<any({"__ICCRH850__"}), "RH850">>, <<any({"__ICCRL78__"}), "RL78">>,
              <<any({"__ICCRISCV__"}), "RISCV">>, <<any({"__ICCAVR__"}), "AVR">>,
              <<any({"__ICC430__"}), "MSP430">>, <<any({"__ICCV850__"}), "V850">>,
              <<any({"__ICC8051__"}), "8051">>, <<any({"__ICCSTM8__"}), "STM8">>,
              <<TRUE, "">> >>)>>,
    <<any({"__ghs__"}),
      First(<< <<any({"__PPC64__"}), "PPC64">>, <<any({"__ppc__"}), "PPC">>,
              <<any({"__ARM__"}), "ARM">>, <<any({"__x86_64__"}), "x64">>,
              <<any({"__i386__"}), "X86">>, <<TRUE, "">> >>)>>,
    <<any({"__TI_COMPILER_VERSION__"}),
      First(<< <<any({"__TI_ARM__"}), "ARM">>, <<any({"__MSP430__"}), "MSP430">>,
              <<any({"__TMS320C28XX__"}), "TMS320C28x">>,
              <<any({"__TMS320C6X__", "_TMS320C6X"}), "TMS320C6x">>,
              <<TRUE, "">> >>)>>,
    <<TRUE, "">> >>)

-----------------------------------------------------------------------------
C_DIALECT(d) ==
  LET any(S) == S \cap DOMAIN d # {}
      std(n) == any({"__STDC_VERSION__"}) /\ d["__STDC_VERSION__"] >= n
  IN  First(<<
    <<~ any({"__STDC__"}),
      IF \/ any({"_MSC_VER"}) /\ ~ any({"__clang__"})
         \/ any({"__ibmxl__", "__IBMC__"})
        THEN "90" ELSE "">>,
    <<std(201000), "11">>,
    <<std(199901), "99">>,
    <<TRUE, "90">> >>)

\* The value of __cplusplus, unless the compiler is known to understate it.
CXX_STD(d) ==
  LET def(m) == m \in DOMAIN d
  IN  IF def("__INTEL_COMPILER") /\ def("_MSVC_LANG") /\ d["_MSVC_LANG"] < 201403
      THEN IF ~ def("__INTEL_CXX11_MODE__") THEN 199711
           ELSE IF def("__cpp_aggregate_nsdmi") THEN 201402 ELSE 201103
      ELSE d[IF def("_MSC_VER") /\ def("_MSVC_LANG") THEN "_MSVC_LANG"
                                                    ELSE "__cplusplus"]

CXX_DIALECT_Eager(d) ==    \* seeded bug: >= for >
  LET std == CXX_STD(d)
  IN  First(<<
    <<std >= 202002, "23">>, <<std > 201703, "20">>, <<std >= 201703, "17">>,
    <<std >= 201402, "14">>, <<std >= 201103, "11">>, <<TRUE, "98">> >>)

CXX_DIALECT(d) ==
  LET std == CXX_STD(d)
  IN  First(<<
    <<std > 202002, "23">>, <<std > 201703, "20">>, <<std >= 201703, "17">>,
    <<std >= 201402, "14">>, <<std >= 201103, "11">>, <<TRUE, "98">> >>)

-----------------------------------------------------------------------------
\* The macros of the compiler at hand.
Predefined == release.macros @@ pose @@ target.macros @@ standard.macros

\* A target or a standard is for some compilers, which may have to pose.
Fits(x) ==
  /\ release.id \in x.ids
  /\ x.needs \subseteq DOMAIN (release.macros @@ pose)

Init ==
  /\ release \in Releases
  /\ pose \in release.poses
  /\ target \in Targets /\ Fits(target)
  /\ standard \in Standards /\ Fits(standard)
  /\ standard.language \in release.languages
  /\ info = <<>>

\* CMake runs the compiler.
Compile ==
  /\ info = <<>>
  /\ LET d  == Predefined
         id == COMPILER_ID(standard.language, d)
     IN  info' = [compiler |-> id,
                  version  |-> COMPILER_VERSION(standard.language, id, d),
                  platform |-> PLATFORM_ID(d),
                  arch     |-> ARCHITECTURE_ID(d),
                  dialect  |-> IF standard.language = "C" THEN C_DIALECT(d)
                                                          ELSE CXX_DIALECT(d)]
  /\ UNCHANGED <<release, pose, target, standard>>

Compiled == info # <<>> /\ UNCHANGED probeVars

Next == Compile \/ Compiled

Spec == Init /\ [][Next]_probeVars

\* CMake reads the digits of a component as a decimal number.
Reads(component) == FoldLeft(LAMBDA n, digit : 10 * n + digit, 0, component)

-----------------------------------------------------------------------------
\* A compiler is named for what it is, whichever other compilers it poses as:
\* those that pose are asked for before those they pose as.
NamedAsItself == info # <<>> => info.compiler = release.id

\* The version that a compiler packs into its macros, in the format it used at
\* the time, is the version read from the binary.
VersionIsRead ==
  info # <<>> =>
    [k \in DOMAIN info.version |-> Reads(info.version[k])] = release.version

\* Platform and architecture are right where a target defines the macros of
\* another one too.
TargetIsRead ==
  info # <<>> => info.platform = target.platform /\ info.arch = target.arch

\* The default standard is the one the compiler implements, also by those that
\* understate __cplusplus.
DialectIsRead == info # <<>> => info.dialect = standard.dialect

=============================================================================
