----------------------------- MODULE MCCompilerId -----------------------------
(* Compilers for CompilerId: one release of each, and more where the format of *)
(* a version changed.  Values of macros are those the compilers document.      *)
EXTENDS CompilerId

Both == {"C", "CXX"}

\* A macro or some, each with the same value.
Def(m, n) == [x \in {m} |-> n]
Defs(ms, n) == [x \in ms |-> n]

NoPose == Defs({}, 0)
GNUPose == Defs({"__GNUC__", "__GNUC_MINOR__"}, 4)
ClangPose == GNUPose @@ Def("__clang__", 1)
MSVCPose == Def("_MSC_VER", 1929)

R(languages, id, version, macros, poses) ==
  [languages |-> languages, id |-> id, version |-> version, macros |-> macros,
   poses |-> {NoPose} \cup poses]

IntelPoses == {GNUPose, MSVCPose}

SomeReleases == {
  R({"CXX"}, "Comeau", <<4, 33>>, Def("__COMO__", 1) @@ Def("__COMO_VERSION__", 433),
    {GNUPose, MSVCPose, Def("__SUNPRO_CC", 20880)}),
  R(Both, "Intel", <<9, 1, 0>>, Def("__INTEL_COMPILER", 910), IntelPoses),
  R(Both, "Intel", <<19, 1, 3, 20200925>>,
    Def("__INTEL_COMPILER", 1910) @@ Def("__INTEL_COMPILER_UPDATE", 3)
      @@ Def("__INTEL_COMPILER_BUILD_DATE", 20200925), IntelPoses),
  R(Both, "Intel", <<2021, 1, 0>>, Def("__INTEL_COMPILER", 202110), IntelPoses),
  R(Both, "Intel", <<2021, 2, 0>>,
    Def("__INTEL_COMPILER", 2021) @@ Def("__INTEL_COMPILER_UPDATE", 2), IntelPoses),
  R(Both, "IntelLLVM", <<2021, 1, 0>>, Def("__INTEL_LLVM_COMPILER", 202110),
    {ClangPose, MSVCPose @@ Def("__clang__", 1)}),
  R(Both, "IntelLLVM", <<2023, 10, 1>>, Def("__INTEL_LLVM_COMPILER", 20231001),
    {ClangPose, MSVCPose @@ Def("__clang__", 1)}),
  R(Both, "PathScale", <<4, 0, 12>>,
    Def("__PATHCC__", 4) @@ Def("__PATHCC_MINOR__", 0)
      @@ Def("__PATHCC_PATCHLEVEL__", 12), {GNUPose}),
  R(Both, "Embarcadero", <<6, 20, 1234>>, Def("__BORLANDC__", 1568)
      @@ Def("__CODEGEARC_VERSION__", 6 * 2^24 + 32 * 2^16 + 1234), {ClangPose}),
  R(Both, "Borland", <<5, 82>>, Def("__BORLANDC__", 5 * 256 + 8 * 16 + 2), {}),
  R(Both, "Watcom", <<10, 6>>, Def("__WATCOMC__", 1060), {}),
  R(Both, "Watcom", <<11, 0>>, Def("__WATCOMC__", 1100), {}),
  R(Both, "OpenWatcom", <<1, 8, 1>>, Def("__WATCOMC__", 1281), {}),
  R(Both, "OpenWatcom", <<2, 0>>, Def("__WATCOMC__", 1300), {}),
  R({"C"}, "SunPro", <<5, 9, 0>>, Def("__SUNPRO_C", 5 * 256 + 9 * 16), {}),
  R({"C"}, "SunPro", <<5, 10, 0>>, Def("__SUNPRO_C", 5 * 4096 + 16 * 16), {}),
  R({"CXX"}, "SunPro", <<5, 14, 1>>, Def("__SUNPRO_CC", 5 * 4096 + 20 * 16 + 1),
    {GNUPose}),
  R({"C"}, "HP", <<6, 12, 5>>, Def("__HP_cc", 61205), {}),
  R({"CXX"}, "HP", <<6, 28, 0>>, Def("__HP_aCC", 62800), {GNUPose}),
  R({"C"}, "HP", <<>>, Def("__hpux", 1), {}),
  R({"C"}, "Compaq", <<6, 5, 207>>,
    Def("__DECC", 1) @@ Def("__DECC_VER", 60590207), {}),
  R({"C"}, "zOS", <<4, 1, 2>>, Def("__IBMC__", 412) @@ Def("__COMPILER_VER__", 1), {}),
  R(Both, "XLClang", <<16, 1, 1, 6>>,
    Def("__ibmxl__", 1) @@ Def("__clang__", 1) @@ Def("__ibmxl_version__", 16)
      @@ Defs({"__ibmxl_release__", "__ibmxl_modification__"}, 1)
      @@ Def("__ibmxl_ptf_fix_level__", 6), {GNUPose}),
  R({"C"}, "XL", <<8, 0, 0>>, Def("__IBMC__", 800), {}),
  R({"CXX"}, "XL", <<13, 1, 3>>, Def("__IBMCPP__", 1313), {GNUPose}),
  R({"C"}, "VisualAge", <<7, 0, 9>>, Def("__IBMC__", 709), {}),
  R(Both, "NVHPC", <<21, 2, 0>>,
    Defs({"__NVCOMPILER", "__NVCOMPILER_MAJOR__"}, 21)
      @@ Def("__NVCOMPILER_MINOR__", 2) @@ Def("__NVCOMPILER_PATCHLEVEL__", 0),
    {GNUPose @@ Def("__PGI", 1)}),
  R(Both, "PGI", <<19, 10, 0>>, Defs({"__PGI", "__PGIC__"}, 19)
      @@ Def("__PGIC_MINOR__", 10) @@ Def("__PGIC_PATCHLEVEL__", 0), {GNUPose}),
  R(Both, "Cray", <<8, 7>>,
    Def("_CRAYC", 1) @@ Def("_RELEASE_MAJOR", 8) @@ Def("_RELEASE_MINOR", 7), {GNUPose}),
  R(Both, "TI", <<16, 9, 3>>, Def("__TI_COMPILER_VERSION__", 16009003), {GNUPose}),
  R(Both, "Fujitsu", <<>>, Def("__FUJITSU", 1), {GNUPose, ClangPose}),
  R(Both, "GHS", <<2017, 1, 4>>,
    Def("__ghs__", 1) @@ Def("__GHS_VERSION_NUMBER", 201714), {GNUPose}),
  R({"C"}, "TinyCC", <<>>, Def("__TINYC__", 927), {GNUPose}),
  R({"C"}, "Bruce", <<>>, Def("__BCC__", 1), {}),
  R(Both, "SCO", <<>>, Def("__SCO_VERSION__", 1), {}),
  R(Both, "ARMCC", <<4, 1, 713>>, Def("__ARMCC_VERSION", 410713), {GNUPose}),
  R(Both, "ARMCC", <<5, 6, 750>>, Def("__ARMCC_VERSION", 5060750), {GNUPose}),
  R(Both, "AppleClang", <<12, 0, 5, 12050022>>,
    Defs({"__clang__", "__clang_major__"}, 12) @@ Def("__clang_minor__", 0)
      @@ Def("__clang_patchlevel__", 5) @@ Def("__apple_build_version__", 12050022),
    {GNUPose}),
  R(Both, "ARMClang", <<6, 14, 1>>, Def("__clang__", 1)
      @@ Defs({"__ARMCOMPILER_VERSION", "__ARMCC_VERSION"}, 6140001), {GNUPose}),
  R(Both, "Clang", <<11, 0, 1>>, Defs({"__clang__", "__clang_major__"}, 11)
      @@ Def("__clang_minor__", 0) @@ Def("__clang_patchlevel__", 1),
    {GNUPose, MSVCPose}),
  R(Both, "GNU", <<8, 3, 0>>, Def("__GNUC__", 8) @@ Def("__GNUC_MINOR__", 3)
      @@ Def("__GNUC_PATCHLEVEL__", 0), {}),
  R({"CXX"}, "GNU", <<2>>, Def("__GNUG__", 2), {}),
  R(Both, "MSVC", <<13, 10, 6030>>,
    Def("_MSC_VER", 1310) @@ Def("_MSC_FULL_VER", 13106030), {}),
  R(Both, "MSVC", <<14, 0, 50727, 42>>, Def("_MSC_VER", 1400)
      @@ Def("_MSC_FULL_VER", 140050727) @@ Def("_MSC_BUILD", 42), {}),
  R(Both, "ADSP", <<5, 1, 10>>,
    Def("__VISUALDSPVERSION__", 5 * 2^24 + 2^16 + 16 * 256), {}),
  R(Both, "IAR", <<8, 50, 2>>, Def("__IAR_SYSTEMS_ICC__", 9)
      @@ Def("__VER__", 8050002) @@ Def("__ICCARM__", 1), {}),
  R({"C"}, "IAR", <<7, 30, 1>>, Def("__IAR_SYSTEMS_ICC__", 9)
      @@ Def("__VER__", 730) @@ Def("__SUBVERSION__", 1) @@ Def("__ICCAVR__", 1), {}),
  R({"C"}, "SDCC", <<4, 0, 7>>, Def("__SDCC_VERSION_MAJOR", 4)
      @@ Def("__SDCC_VERSION_MINOR", 0) @@ Def("__SDCC_VERSION_PATCH", 7), {}),
  R({"C"}, "SDCC", <<3, 9, 0>>, Def("SDCC", 390), {}),
  R({"C"}, "", <<>>, NoPose, {}) }

Ids == {r.id : r \in SomeReleases}
Embedded == {"Watcom", "OpenWatcom", "IAR", "TI", "GHS", "ADSP", "SDCC", "ARMCC"}
Hosted == Ids \ (Embedded \cup {"MSVC"})

T(platform, arch, ids, needs, macros) ==
  [platform |-> platform, arch |-> arch, ids |-> ids, needs |-> needs,
   macros |-> macros]

Windows(arch, macros) ==
  T("Windows", arch, Ids, {"_MSC_VER"}, Defs(macros \cup {"_WIN32"}, 7))

SomeTargets == {
  T("Linux", "", Hosted, {}, Defs({"__linux__", "linux"}, 1)),
  T("Cygwin", "", {"GNU", "Clang"}, {}, Defs({"__CYGWIN__"}, 1)),
  T("MinGW", "", {"GNU"}, {}, Defs({"__MINGW32__", "_WIN32", "WIN32"}, 1)),
  T("Darwin", "", {"AppleClang", "GNU", "Intel"}, {}, Defs({"__APPLE__"}, 1)),
  T("HP-UX", "", {"HP"}, {}, Defs({"__hpux"}, 1)),
  T("QNX", "", {"GNU"}, {}, Defs({"__QNX__", "__QNXNTO__"}, 1)),
  Windows("x64", {"_M_X64", "_M_AMD64"}),
  Windows("ARM64EC", {"_M_X64", "_M_AMD64", "_M_ARM64EC"}),
  Windows("X86", {"_M_IX86"}),
  Windows("ARMV of the macro's value", {"_M_ARM"}),
  T("DOS", "I86", {"Watcom", "OpenWatcom"}, {}, Defs({"__DOS__", "_M_I86"}, 1)),
  T("Windows", "X86", {"OpenWatcom"}, {}, Defs({"_WIN32", "_M_IX86"}, 1)),
  T("", "ARM", {"IAR"}, {"__ICCARM__"}, NoPose),
  T("", "AVR", {"IAR"}, {"__ICCAVR__"}, NoPose),
  T("", "ARM", {"TI"}, {}, Def("__TI_ARM__", 1)),
  T("Integrity178", "PPC", {"GHS"}, {}, Defs({"__INTEGRITY", "INT_178B", "__ppc__"}, 1)),
  T("Integrity", "x64", {"GHS"}, {}, Defs({"__INTEGRITY", "__x86_64__"}, 1)),
  T("", "", {"ADSP", "SDCC", "ARMCC"}, {}, NoPose) }

D(language, dialect, ids, needs, macros) ==
  [language |-> language, dialect |-> dialect, ids |-> ids, needs |-> needs,
   macros |-> macros]

StdC(n) == Def("__STDC__", 1) @@ Def("__STDC_VERSION__", n)
Cplusplus(n) == Def("__cplusplus", n)
Intel11 == Def("__INTEL_CXX11_MODE__", 1)

SomeStandards ==
  { D("C", "90", Ids, {}, Def("__STDC__", 1)),
    D("C", "90", {"MSVC"}, {}, NoPose),
    D("C", "99", Ids, {}, StdC(199901)),
    D("C", "11", Ids, {}, StdC(201112)),
    D("C", "11", Ids, {}, StdC(201710)),
    D("CXX", "98", Ids, {}, Cplusplus(199711)),
    D("CXX", "11", Ids, {}, Cplusplus(201103)),
    D("CXX", "14", Ids, {}, Cplusplus(201402)),
    D("CXX", "17", Ids, {}, Cplusplus(201703)),
    D("CXX", "20", Ids, {}, Cplusplus(202002)),
    D("CXX", "23", Ids, {}, Cplusplus(202302)),
    D("CXX", "14", {"MSVC"}, {}, Cplusplus(199711) @@ Def("_MSVC_LANG", 201402)),
    D("CXX", "20", {"MSVC"}, {}, Cplusplus(199711) @@ Def("_MSVC_LANG", 202002)),
    D("CXX", "98", {"Intel"}, {"_MSC_VER"},
      Cplusplus(199711) @@ Def("_MSVC_LANG", 201402)),
    D("CXX", "11", {"Intel"}, {"_MSC_VER"},
      Cplusplus(199711) @@ Def("_MSVC_LANG", 201402) @@ Intel11),
    D("CXX", "14", {"Intel"}, {"_MSC_VER"}, Cplusplus(199711)
      @@ Def("_MSVC_LANG", 201402) @@ Intel11 @@ Def("__cpp_aggregate_nsdmi", 1)) }

=============================================================================
