------------------------------ MODULE MCCalls ------------------------------
(***************************************************************************)
(* The methods of the test interface                                       *)
(* (test/test_component/py_test_component.idl), one for each kind of       *)
(* signature, with arguments and answers that go through and some that do  *)
(* not.  Texts are told apart by their length.                             *)
(***************************************************************************)
EXTENDS Calls

In == {"in"}
InOut == {"in", "out"}
Out == {"out"}
Retval == {"out", "retval"}
InDipper == {"in", "dipper"}

Plainly(type, flags) == Param(type, type, flags, 1)
Counted(type, flags, k) == Param(type, type, flags, k)
ArrayOf(elem, flags, k) == Param("array", elem, flags, k)
U32(flags) == Plainly("num", flags)

Product(sets) ==
  {t \in [DOMAIN sets -> UNION {sets[j] : j \in DOMAIN sets}] :
     \A j \in DOMAIN sets : t[j] \in sets[j]}

Method(sig_, argSets, answerSets) ==
  [sig |-> sig_, args |-> Product(argSets), answers |-> Product(answerSets)]

Numbers == {Integer(1), Integer(5), Integer(9), Str(1)}
Texts == {None, Str(2), Unicode(1), Integer(1)}
IIDs == {IID(1), None}
Objects == {None, Instance(1), Alien}
Strings == {None, List(<<>>), Unicode(2), List(<<Str(1), Unicode(2)>>),
            List(<<Str(1), Integer(1)>>)}
Longs == {None, List(<<>>), List(<<Integer(1), Integer(2)>>),
          List(<<Integer(3), None>>)}
Instances == {None, List(<<Instance(1)>>), List(<<Instance(1), None>>),
              List(<<Instance(1), Alien>>)}
Bytes == {None, Str(0), Str(2), Unicode(1), OddText, List(<<>>),
          List(<<Integer(1), Integer(3)>>), List(<<Integer(5), Integer(1)>>),
          List(<<Integer(1), Str(1)>>)}
Chars == {None, List(<<>>), Str(2), OddText, List(<<Str(1), Str(2)>>),
          List(<<Unicode(1), Str(1)>>), List(<<Str(1), Integer(1)>>)}
Anything == {None, Bool(0), Integer(5), Integer(9), Str(0), OddText,
             Instance(1), IID(1), List(<<Str(1), Bool(1)>>), Alien,
             List(<<Unicode(2), List(<<Str(1)>>)>>)}

NumberMethods == {
  \* do_long
  Method(<<U32(In), U32(InOut), U32(Out), U32(Retval)>>,
         <<Numbers, {Integer(2), None}>>,
         <<Numbers, {Integer(2)}, {Integer(3), None}>>),
  \* do_char
  Method(<<Plainly("char", In), Plainly("char", InOut), Plainly("char", Retval)>>,
         <<{Str(1), Unicode(1), Str(2)}, {Str(1), None}>>,
         <<{Str(1), Str(2), Str(0)}, {Unicode(1), Integer(1)}>>),
  \* SetOptionalNumbers
  [sig |-> <<U32(In \cup {"optional"}), U32(In \cup {"optional"})>>,
   args |-> {<<>>, <<Integer(1)>>, <<Integer(1), Integer(2)>>},
   answers |-> {<<>>}],
  \* One that Python cannot call: jsval is not supported.  It does not get as
  \* far as the size.
  [sig |-> <<Plainly("utf8", In), Plainly("jsval", In), U32(In),
             Counted("sized", In, 3)>>,
   args |-> {<<first, Str(2), Integer(2), Str(2)>> : first \in {Str(1), OddText}},
   answers |-> {<<>>}]}

TextMethods == {
  \* do_string, do_wstring
  Method(<<Plainly("string", In), Plainly("string", InOut), Plainly("string", Out),
           Plainly("string", Retval)>>,
         <<Texts, Texts \cup {OddText}>>,
         <<Texts, Texts \cup {OddText}, {Str(1)}>>),
  Method(<<Plainly("wstring", In), Plainly("wstring", InOut), Plainly("wstring", Retval)>>,
         <<Texts, Texts>>, <<Texts, Texts \cup {OddText}>>),
  \* CopyUTF8String2, an ACString and a DOMString
  Method(<<Plainly("utf8", In), Plainly("utf8", InDipper)>>,
         <<Texts \cup {OddText}>>, <<Texts \cup {OddText}>>),
  Method(<<Plainly("cstring", In), Plainly("cstring", InDipper \cup {"retval"})>>,
         <<Texts \cup {OddText}>>, <<Texts \cup {OddText}>>),
  Method(<<Plainly("astring", In), Plainly("astring", In),
           Plainly("astring", {"dipper"})>>,
         <<Texts \cup {OddText}, {Str(1)}>>, <<Texts \cup {OddText}>>)}

SizedMethods == {
  \* DoubleString, DoubleString2, DoubleString4, UpString, UpString2,
  \* GetFixedString
  Method(<<U32(InOut), Counted("sized", InOut, 1)>>, <<Texts>>, <<Texts>>),
  Method(<<U32(In), Counted("sized", In, 1), U32(Out), Counted("sized", Out, 3)>>,
         <<Texts>>, <<Texts>>),
  Method(<<Counted("wsized", In, 2), U32(InOut), Counted("wsized", Out, 2)>>,
         <<Texts>>, <<Texts>>),
  Method(<<U32(In), Counted("wsized", InOut, 1)>>, <<Texts>>, <<Texts>>),
  Method(<<U32(In), Counted("sized", In, 1), Counted("sized", Out, 1)>>,
         <<Texts>>, <<Texts>>),
  Method(<<U32(In), Counted("wsized", Out, 1)>>, <<{Integer(2), None}>>, <<Texts>>)}

InterfaceMethods == {
  \* do_nsISupports, do_nsIIDRef, do_nsISupportsIs, and a variant
  Method(<<Param("iface", "iface", In, 1), Param("iface", "iface", InOut, 1),
           Param("iface", "iface", Retval, 1)>>,
         <<Objects, Objects>>, <<Objects, {None, Instance(1)}>>),
  Method(<<Plainly("iid", In), Plainly("iid", InOut), Plainly("iid", Out)>>,
         <<{IID(1)}, IIDs>>, <<IIDs, {IID(1)}>>),
  Method(<<Plainly("iid", In), Counted("iface_is", Retval, 1)>>,
         <<{IID(0), IID(1), IID(2)}>>, <<Objects>>),
  Method(<<Plainly("iid", In), Counted("iface_is", In, 1)>>,
         <<{IID(0), IID(1), IID(2)}, Objects>>, <<>>),
  Method(<<Plainly("variant", In), Plainly("variant", InOut)>>,
         <<Anything, {None, Integer(1)}>>, <<Anything>>)}

ArrayMethods == {
  \* MultiplyEachItemInIntegerArray, CompareStringArrays, DoubleStringArray
  Method(<<U32(In), U32(In), ArrayOf("num", InOut, 2)>>,
         <<{Integer(1)}, Longs>>, <<Longs>>),
  Method(<<ArrayOf("string", In, 3), ArrayOf("string", In, 3), U32(In), U32(Retval)>>,
         <<Strings, Strings>>, <<{Integer(1)}>>),
  Method(<<U32(InOut), ArrayOf("string", InOut, 1)>>, <<Strings>>, <<Strings>>),
  \* UpOctetArray, UpOctetArray2, and characters
  Method(<<U32(InOut), ArrayOf("octet", InOut, 1)>>, <<Bytes>>, <<Bytes>>),
  Method(<<U32(In), ArrayOf("octet", In, 1), U32(Out), ArrayOf("octet", Retval, 3)>>,
         <<Bytes>>, <<Bytes>>),
  Method(<<U32(In), ArrayOf("octet", InOut, 1)>>, <<Bytes>>, <<Bytes>>),
  Method(<<U32(InOut), ArrayOf("char", InOut, 1)>>, <<Chars>>, <<Chars>>),
  \* ReverseStringArray, GetFixedArray
  Method(<<U32(In), ArrayOf("string", InOut, 1)>>, <<Strings>>, <<Strings>>),
  Method(<<U32(In), ArrayOf("num", Out, 1)>>, <<{Integer(2)}>>, <<Longs>>),
  \* GetStrings, GetArrays, CopyAndDoubleArray, AppendArray, ReturnArray
  Method(<<U32(Out), ArrayOf("string", Retval, 1)>>, <<>>, <<Strings>>),
  Method(<<U32(Out), ArrayOf("num", Out, 1), ArrayOf("num", Out, 1)>>,
         <<>>, <<Longs, Longs>>),
  Method(<<U32(InOut), ArrayOf("num", In, 1), ArrayOf("num", Out, 1)>>,
         <<Longs>>, <<Longs>>),
  Method(<<U32(InOut), ArrayOf("num", In, 1), ArrayOf("num", InOut, 1)>>,
         <<Longs, Longs>>, <<Longs>>),
  Method(<<ArrayOf("num", Out, 2), U32(Retval)>>, <<>>, <<Longs>>),
  \* ExtendInterfaceArray, SumVariants, and IIDs
  Method(<<U32(InOut), ArrayOf("iface", InOut, 1)>>, <<Instances>>, <<Instances>>),
  Method(<<U32(In), ArrayOf("variant", In, 1), Plainly("variant", Retval)>>,
         <<{List(<<Integer(5), Bool(0)>>), List(<<Alien>>), None}>>,
         <<{Integer(1), None}>>),
  Method(<<U32(InOut), ArrayOf("iid", InOut, 1)>>,
         <<{List(<<IID(1), IID(2)>>), List(<<IID(1), None>>)}>>,
         <<{List(<<IID(3)>>), List(<<None>>)}>>)}

\* A string that is filled in comes back among other results: no method of the
\* test interface has that.
ByrefMethods == {
  Method(<<U32(In), Plainly("astring", InDipper), U32(Out), U32(Retval)>>,
         <<Numbers>>, <<{Integer(2)}, {Str(1), Str(2)}, {Integer(3), Str(1)}>>),
  Method(<<Plainly("utf8", In), Plainly("utf8", InDipper),
           Plainly("utf8", InDipper \cup {"retval"})>>,
         <<Texts \cup {OddText}>>, <<Texts, Texts>>)}

AllMethods == NumberMethods \cup TextMethods \cup SizedMethods
                \cup InterfaceMethods \cup ArrayMethods

\* The sizes of the test interface are those of which it is proved that they
\* agree.
ASSUME SizesAssumption == PlainSizes

\* And its IIDs are those of which it is proved that the interfaces are as asked.
ASSUME IIDsAssumption == PlainIIDs
=============================================================================
