---------------------------- MODULE ObjectTemplates ----------------------------
(***************************************************************************)
(* objecttemplates.c: the public area of the keys that create,             *)
(* createloaded and createprimary make, by the type of the key.  The       *)
(* members of a union share their memory, so the name of the member is     *)
(* left out of the name of a field: parameters.rsaDetail.scheme is         *)
(* parameters.scheme here.  Attributes are one field, set as a whole.      *)
(***************************************************************************)
EXTENDS UtilityPrograms, TpmTypes

\* if (policyFilename != NULL), read it
getPolicy(area) ==
  <<When(Given("policyFilename"), <<Try({area \o ".authPolicy"})>>, <<Sets({area \o ".authPolicy"})>>)>>

Aes128Cfb(symmetric) ==
  <<Selects(symmetric \o ".algorithm", TPM_ALG.AES),
    Sets({symmetric \o ".keyBits", symmetric \o ".mode"})>>

\* A mutant: the hash algorithm of the scheme is forgotten.
Scheme_NoDetails(scheme, algorithm) == <<Selects(scheme \o ".scheme", algorithm)>>

\* A scheme with the details it has, or without any.
Scheme(scheme, algorithm) ==
  <<Selects(scheme \o ".scheme", algorithm), Sets({scheme \o ".details"})>>

NoScheme(scheme) == <<Selects(scheme \o ".scheme", TPM_ALG.NULL)>>

asymPublicTemplate_RSA(area) ==
  LET symmetric == area \o ".parameters.symmetric"
      scheme == area \o ".parameters.scheme"
  IN  <<Selects(area \o ".type", TPM_ALG.RSA),
        Switch("keyType", <<
          <<{"TYPE_DEN", "TYPE_DEO", "TYPE_SI", "TYPE_SIR", "TYPE_GP"},
            <<Selects(symmetric \o ".algorithm", TPM_ALG.NULL)>>>>,
          <<{"TYPE_ST"}, Aes128Cfb(symmetric)>>>>, <<>>),
        Switch("keyType", <<
          <<{"TYPE_DEN", "TYPE_GP", "TYPE_ST", "TYPE_SI"}, NoScheme(scheme)>>,
          <<{"TYPE_DEO"}, Scheme(scheme, TPM_ALG.OAEP)>>,
          <<{"TYPE_SIR"}, Scheme(scheme, TPM_ALG.RSASSA)>>>>, <<>>),
        Sets({area \o ".parameters.keyBits", area \o ".parameters.exponent", area \o ".unique"})>>

asymPublicTemplate_ECC(area) ==
  LET symmetric == area \o ".parameters.symmetric"
      scheme == area \o ".parameters.scheme"
      curveID == Sets({area \o ".parameters.curveID"})
      noKdf == Selects(area \o ".parameters.kdf.scheme", TPM_ALG.NULL)
  IN  <<Selects(area \o ".type", TPM_ALG.ECC),
        Switch("keyType", <<
          <<{"TYPE_DEN", "TYPE_DEO", "TYPE_SI", "TYPE_SIR", "TYPE_DAA", "TYPE_DAAR", "TYPE_GP"},
            <<Selects(symmetric \o ".algorithm", TPM_ALG.NULL)>>>>,
          <<{"TYPE_ST"}, Aes128Cfb(symmetric)>>>>, <<>>),
        Switch("keyType", <<
          <<{"TYPE_GP", "TYPE_SI", "TYPE_DEN", "TYPE_DEO", "TYPE_ST"},
            NoScheme(scheme) \o <<curveID, noKdf>>>>,
          <<{"TYPE_SIR"}, Scheme(scheme, TPM_ALG.ECDSA) \o <<curveID, noKdf>>>>,
          <<{"TYPE_DAA", "TYPE_DAAR"}, Scheme(scheme, TPM_ALG.ECDAA) \o <<curveID, noKdf>>>>>>, <<>>),
        Sets({area \o ".unique"})>>

asymPublicTemplate(area) ==
  <<Sets({area \o ".objectAttributes", area \o ".nameAlg"}),
    When(Is("algPublic", "TPM_ALG_RSA"), asymPublicTemplate_RSA(area), asymPublicTemplate_ECC(area))>>
  \o getPolicy(area)

symmetricCipherTemplate(area) ==
  <<Sets({area \o ".objectAttributes", area \o ".nameAlg"}), Selects(area \o ".type", TPM_ALG.SYMCIPHER)>>
  \o Aes128Cfb(area \o ".parameters.sym")
  \o <<Sets({area \o ".unique"})>> \o getPolicy(area)

\* What the templates of the objects without a cipher have in common.
KeyedHash(area, scheme) ==
  <<Sets({area \o ".objectAttributes", area \o ".nameAlg"}), Selects(area \o ".type", TPM_ALG.KEYEDHASH)>>
  \o scheme \o <<Sets({area \o ".unique"})>> \o getPolicy(area)

keyedHashPublicTemplate(area) ==
  KeyedHash(area, Scheme(area \o ".parameters.scheme", TPM_ALG.HMAC))

derivationParentPublicTemplate(area) ==
  KeyedHash(area, Scheme(area \o ".parameters.scheme", TPM_ALG.XOR))

blPublicTemplate(area) == KeyedHash(area, NoScheme(area \o ".parameters.scheme"))

\* The switch over the key types in create.c, createloaded.c and createprimary.c.
AsymmetricKeys ==
  {"TYPE_ST", "TYPE_DAA", "TYPE_DAAR", "TYPE_DEN", "TYPE_DEO", "TYPE_SI", "TYPE_SIR", "TYPE_GP"}

KeyTypes == AsymmetricKeys \union {"TYPE_BL", "TYPE_DES", "TYPE_KH", "TYPE_DP"}

CheckKeyType ==
  <<Refuse(And(Is("keyType", "TYPE_BL"), Not(Given("dataFilename")))),
    Refuse(And(Among("keyType", {"TYPE_DAA", "TYPE_DAAR"}), Not(Is("algPublic", "TPM_ALG_ECC")))),
    Refuse(And(Among("keyType", AsymmetricKeys), Given("dataFilename")))>>

PublicTemplate(area) ==
  Switch("keyType", <<
    <<{"TYPE_BL"}, blPublicTemplate(area)>>,
    <<AsymmetricKeys, asymPublicTemplate(area)>>,
    <<{"TYPE_DES"}, symmetricCipherTemplate(area)>>,
    <<{"TYPE_KH"}, keyedHashPublicTemplate(area)>>,
    <<{"TYPE_DP"}, derivationParentPublicTemplate(area)>>>>, <<>>)

=============================================================================
