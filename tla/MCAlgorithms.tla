---------------------------- MODULE MCAlgorithms ----------------------------
(* The calls TLC makes of the functions of Algorithms.                     *)
EXTENDS Algorithms

\* Two resources, three scopes, four metrics: points are numbered.
MCExports ==
  LET Metric(name, n) == [name |-> name, points |-> SubSeq(<<"p1", "p2", "p3", "p4">>, 1, n)]
      Request(a, b, c, d) ==
        <<[resource |-> "r1", scopes |->
             <<[scope |-> "s1", metrics |-> <<Metric("a", a), Metric("b", b)>>],
               [scope |-> "s2", metrics |-> <<Metric("c", c)>>]>>],
          [resource |-> "r2", scopes |->
             <<[scope |-> "s1", metrics |-> <<Metric("d", d)>>]>>]>>
  IN {[request |-> Request(a, b, c, d), max |-> max] :
        a \in 0..4, b \in {0, 1, 3}, c \in 0..2, d \in {0, 1, 4}, max \in 1..3}

\* Client keys: a digit of two bits as in production, and of three, which
\* leaves an odd digit.
MCKeys ==
  {[pattern |-> "Standard", s |-> s, msg |-> msg, carry |-> msg] :
     s \in {<<0, 1>>, <<1, 1>>}, msg \in {4, 8}}

Space(ck) == 2 * ck.msg * ck.carry

\* A modulus that leaves steps of four between the plaintexts of a block.
LogOf(ck) == IF ck.msg = 4 THEN 7 ELSE 9

WordsFor(len, log) == (len * log + Word - 1) \div Word

\* A block as the engine stores it: m under a mask, with noise.
Block(ck, m, mask, noise) ==
  LET log == LogOf(ck)
      dot == SumFunction([i \in DOMAIN mask |-> mask[i] * ck.s[i]])
  IN [msg |-> ck.msg, carry |-> ck.carry, pattern |-> "KeyswitchBootstrap",
      form |-> "Classic", dim |-> Len(ck.s), log |-> log, initial_len |-> Len(ck.s) + 1,
      packed_len |-> WordsFor(Len(ck.s) + 1, log),
      words |-> Append(mask, (dot + m * (2^log \div Space(ck)) + noise) % 2^log)]

\* The blocks of v: digits in pairs, an odd one last.
Compressed(ck, v, ndigits, mask, noise) ==
  LET digit == [i \in 1..ndigits |-> (v \div ck.msg^(i - 1)) % ck.msg] IN
  [paired |-> [k \in 1..(ndigits \div 2) |->
                 Block(ck, digit[2 * k - 1] + ck.msg * digit[2 * k], mask, noise)],
   last |-> IF ndigits % 2 = 0 THEN << >> ELSE <<Block(ck, digit[ndigits], mask, noise)>>]

DigitsFor(ck, ty) == IF ck.msg = 4 THEN bits(ty) \div 2 ELSE (bits(ty) + 2) \div 3

Masks(ck) == {<<0, 0>>, <<1, 2^LogOf(ck) - 1>>, <<2^LogOf(ck) - 1, 2^LogOf(ck) - 2>>}

Uint(radix) == [kind |-> "uint", form |-> "ModulusSwitched", size |-> CT_SIZE_LIMIT, radix |-> radix]
Bool(block) == [kind |-> "bool", form |-> "ModulusSwitched", size |-> CT_SIZE_LIMIT, block |-> block]

\* Real encryptions.
Encryptions ==
  UNION {
    {[ck |-> ck, zone |-> 0, ty |-> ty, plaintext |-> v,
      ct |-> Uint(Compressed(ck, v, DigitsFor(ck, ty), mask, noise))] :
        ty \in {2, 3}, v \in {0, 1, 6, 128, 255}, mask \in Masks(ck), noise \in -2..1}
    \cup
    {[ck |-> ck, zone |-> 0, ty |-> 0, plaintext |-> v, ct |-> Bool(Block(ck, v, mask, noise))] :
        v \in {0, 1}, mask \in Masks(ck), noise \in -2..1}
    : ck \in MCKeys}

\* Every cleartext of a single block, the padding bit included: a lone digit.
SingleBlocks ==
  UNION {{[ck |-> ck, zone |-> 0, ty |-> 2, plaintext |-> m % ck.msg,
           ct |-> Uint([paired |-> << >>, last |-> <<Block(ck, m, mask, noise)>>])] :
            m \in 0..(Space(ck) - 1), mask \in Masks(ck), noise \in -2..1} : ck \in MCKeys}

\* Envelopes nobody honest made.
KeyOf(s) == [pattern |-> "Standard", s |-> s, msg |-> 4, carry |-> 4]

ForgedBlocks ==
  {[msg |-> msg, carry |-> carry, pattern |-> pattern, form |-> form, dim |-> dim,
    log |-> log, initial_len |-> len, packed_len |-> packed,
    words |-> [i \in 1..len |-> 2^log - 1]] :
     msg \in {0, 4}, carry \in {4, 8}, pattern \in {"KeyswitchBootstrap", "BootstrapKeyswitch"},
     form \in {"Classic", "MultiBit"}, dim \in {2, 3}, log \in {0, 1, 7, 10},
     len \in {0, 3, 4}, packed \in {0, 1, 3}}

Forgeries ==
  LET real(v, n) == Uint(Compressed(KeyOf(<<1, 1>>), v, n, <<1, 5>>, 0))
      bare == [paired |-> << >>, last |-> << >>]
      label(ty, ct) == [ck |-> KeyOf(<<1, 1>>), zone |-> 0, ty |-> ty, plaintext |-> -1, ct |-> ct]
  IN {label(2, Uint([paired |-> <<b>>, last |-> <<>>])) : b \in ForgedBlocks}
     \cup {label(0, Bool(b)) : b \in ForgedBlocks}
     \cup {label(2, real(v, n)) : v \in {255, 256, 65535}, n \in {1, 4, 5, 6, 8}}
     \cup {label(2, Uint(bare)), label(0, real(1, 4)),
           label(2, [real(1, 4) EXCEPT !.form = "Seeded"]),
           label(2, [real(1, 4) EXCEPT !.size = @ + 1])}
     \cup {label(ty, real(1, 4)) : ty \in {-1, 1, 8}}
     \cup {[label(2, real(1, 4)) EXCEPT !.zone = 1]}
     \cup {[label(2, real(1, 4)) EXCEPT !.ck.pattern = "KeySwitch32"],
           [label(2, real(1, 4)) EXCEPT !.ck.msg = 1, !.ck.carry = 1]}

MCCiphertexts == Encryptions \cup SingleBlocks \cup Forgeries

\* Answers, and signatures over a group of order 7.
MCAnswers ==
  {[op |-> op, value |-> v, ty |-> ty, chain |-> chain, hash |-> hash, recipient |-> recipient,
    pk |-> pk, nonce |-> 20, s |-> s, recid |-> recid, order |-> 7, format |-> format] :
     op \in {"decrypt", "seal"}, v \in {0, 1, 2147483647}, ty \in {0, 2, 3, 7},
     chain \in {1, 11155111}, hash \in {3, 200}, pk \in {10, 11}, s \in {2, 5},
     recid \in [odd : BOOLEAN, reduced : BOOLEAN], format \in {"raw", "evm"},
     recipient \in {[i \in 1..32 |-> 9], [i \in 1..32 |-> 0], [i \in 1..31 |-> 9]}}

\* Spellings: up to one character more than the two bytes of a word here.
MCTexts ==
  {[prefix |-> prefix, chars |-> chars] :
     prefix \in {"", "0x", "0X"}, chars \in BoundedSeq({"0", "a", "A", "f", "g"}, 5)}

\* Permissions: lists up to one entry too many, and every other field over
\* spellings or numbers that can be read or not.
MCPermissions ==
  LET Text(prefix, chars) == [prefix |-> prefix, chars |-> chars]
      Addresses == {Text("0x", <<"f", "0">>), Text("", << >>), Text("0x", <<"0">>), Text("", <<"a">>)}
      Words == {Text("0x", <<"A">>), Text("0X", <<"0", "1">>), Text("", <<"a", "f", "0", "1">>)}
      Signatures == {Text("0x", <<"0", "0", "a", "1">>), Text("", << >>), Text("0x", <<"f">>),
                     Text("", <<"g", "0">>)}
      Data == {[kind |-> "none"]} \cup [kind : {"num"}, num : {0, MAX_U64, MAX_U64 + 1}]
                \cup [kind : {"str"}, str : {Text("", <<"1", "2">>), Text("0X", <<"1", "2">>),
                                             Text("", <<"a">>), Text("0x", <<"f", "f", "f", "f">>),
                                             Text("0x", <<"1", "0", "0", "0", "0">>)}]
      Plain == [issuer |-> Text("0x", <<"f", "0">>), expiration |-> 7,
                recipient |-> Text("", << >>), revoker_data |-> [kind |-> "none"],
                revoker_contract |-> Text("", << >>), scope |-> 0, contracts |-> << >>,
                handles |-> << >>, sealing_key |-> Text("", << >>),
                issuer_signature |-> Text("0x", <<"0", "0", "a", "1">>),
                recipient_signature |-> Text("", << >>)]
  IN {[Plain EXCEPT !.contracts = c, !.handles = h, !.scope = 1] :
        c \in BoundedSeq(Addresses, MAX_SCOPE_ENTRIES + 1),
        h \in BoundedSeq(Words, MAX_SCOPE_ENTRIES + 1)}
     \cup
     {[Plain EXCEPT !.issuer = i, !.recipient = r, !.revoker_contract = v, !.sealing_key = k,
                    !.contracts = <<i, v>>] :
        i \in Addresses, r \in Addresses, v \in Addresses, k \in Words}
     \cup
     {[Plain EXCEPT !.expiration = e, !.scope = s, !.revoker_data = d, !.issuer_signature = i,
                    !.recipient_signature = r] :
        e \in {-1, 0, MAX_U64, MAX_U64 + 1}, s \in {-1, 0, 255, 256}, d \in Data,
        i \in Signatures, r \in Signatures}
=============================================================================
